---- MODULE Spec2Model ----
(***************************************************************************)
(* A model of creak's decode layer: the format dispatch facade             *)
(* (src/src/decoder/mod.rs), the raw PCM decoder (decoder/raw.rs) and the  *)
(* per-format sample iterators (decoder/mp3.rs, ...).  The container and   *)
(* codec libraries (hound, lewton, minimp3, claxon) and the byte source    *)
(* are the environment: what they return is chosen nondeterministically    *)
(* among the results their interfaces allow.                               *)
(***************************************************************************)
EXTENDS Integers, Sequences, FiniteSets, TLC

(***************************************************************************)
(* Bounds of the model.                                                    *)
(***************************************************************************)
\* Length in bytes of the source handed to the dispatch facade.
SrcLen == 2
\* Number of I/O failures the environment may inject in one run.
MaxFaults == 1
\* Number of dot-separated segments of a file name.
MaxSegs == 2
\* Length in bytes of the file given to open_raw.
MaxRawLen == 6
\* Number of reads that return fewer bytes than are available.
MaxShort == 1
\* Largest max_frames of a RawAudioSpec.
MaxFrames == 2
\* Number of results (frames, skipped data, errors) the MP3 frame decoder
\* delivers before end-of-stream.
MaxUnits == 3
\* Results the FLAC block decoder delivers before end-of-stream.
MaxBlocks == 3
\* Results the Vorbis packet decoder delivers before end-of-stream.
MaxPackets == 3
\* Samples' worth of bytes held by the source the raw codec is applied to.
MaxCodecSamples == 2
\* Results hound's sample iterator delivers before end-of-stream.
MaxWavUnits == 2
\* Number of calls of Decoder::info.
MaxInfos == 2
\* Number of pulls made on a sample iterator: two samples for every result
\* of the collaborator, the end-of-stream, and one pull after it.
LargestOf(S) == CHOOSE x \in S : \A y \in S : y <= x
MaxPulls == 2 * LargestOf({MaxUnits, MaxBlocks, MaxPackets, MaxWavUnits}) + 2

VARIABLES
    features,   \* cargo features compiled in (subset of Features)
    accepts,    \* backends whose parser accepts the source's bytes read from byte 0
    pos,        \* position of the reader handed to from_reader
    faults,     \* I/O failures injected so far
    pc,         \* "idle", "sniff", "dispatch", "done"
    idx,        \* index into TrialOrder of the next backend to trial-parse
    found,      \* extension picked by the sniff loop ("" when none yet)
    trials,     \* history: one record per FormatDecoder::try_decode call
    commit,     \* history: the committed parse made after sniffing
    path,       \* file name given to open, as its dot-separated segments
    fileOpened, \* history: open got as far as File::open
    result,     \* what open / from_reader returned
    \* the raw decoder
    rspec,      \* the RawAudioSpec given to open_raw
    rlen,       \* length of the file; the byte at offset i is the i-th byte
    rpos,       \* position of the BufReader
    rpc,        \* "closed", "open", "iter", "failed"
    rerr,       \* the error open_raw returned
    rfaults,    \* I/O failures injected so far
    rshort,     \* short reads made so far
    rout,       \* history: the items the sample iterator returned, in order
    rinfo,      \* RawDecoder::info
    \* the MP3 adapter
    mstream,    \* what minimp3's next_frame returns, call by call, before Eof
    mnext,      \* index in mstream of the next result to deliver
    mpc,        \* "closed", "open", "iter", "failed"
    merr,       \* the error Mp3Decoder::from_reader returned
    mexp,       \* sample_rate and channels of the first frame
    mcur,       \* cur_frame (first_frame before into_samples)
    mcursor,    \* frame_cursor
    mout,       \* history: the items the sample iterator returned, in order
    mvals,      \* history: the sample value of each item of mout
    \* the FLAC adapter
    fhead,      \* what FlacReader::new makes of the stream header
    fbits,      \* streaminfo().bits_per_sample
    fsinfo,     \* streaminfo().sample_rate and streaminfo().channels
    fdec,       \* FlacDecoder::sample_rate and FlacDecoder::channels
    fstream,    \* what read_next_or_eof returns, call by call, before Ok(None)
    fnext,      \* index in fstream of the next result to deliver
    fpc,        \* "closed", "open", "iter", "failed", "panicked"
    ferr,       \* the error FlacDecoder::from_reader returned
    cur_block,          \* FlacSampleIterator::cur_block
    cur_block_len,      \* FlacSampleIterator::cur_block_len
    block_cursor,       \* FlacSampleIterator::block_cursor
    max_sample_value,   \* FlacSampleIterator::max_sample_value
    fout,       \* history: the items the sample iterator returned, in order
    fvals,      \* history: the sample value of each item of fout
    \* the Vorbis adapter
    vhead,      \* what OggStreamReader::new makes of the stream headers
    vident,     \* ident_hdr.audio_sample_rate and ident_hdr.audio_channels
    vdec,       \* VorbisDecoder::sample_rate and VorbisDecoder::channels
    vstream,    \* what read_dec_packet_itl returns, call by call, before Ok(None)
    vnext,      \* index in vstream of the next result to deliver
    vpc,        \* "closed", "open", "iter", "failed"
    verr,       \* the error from_reader or into_samples returned
    cur_packet,         \* OggSampleIterator::cur_packet
    packet_cursor,      \* OggSampleIterator::packet_cursor
    vout,       \* history: the items the sample iterator returned, in order
    \* the raw sample codec applied to a source with known bytes
    cspec,      \* the RawAudioSpec
    cbytes,     \* the bytes of the source
    cpos,       \* position of the reader
    cout,       \* history: the items the sample iterator returned, in order
    cvals,      \* history: the sample value of each item of cout
    \* the WAV adapter
    whead,      \* what WavReader::new makes of the stream header
    whdr,       \* what WavReader::spec() returns
    wspec,      \* WavDecoder::spec
    wstream,    \* what hound's sample iterator returns, call by call, before None
    wnext,      \* index in wstream of the next result to deliver
    wpc,        \* "closed", "open", "iter", "failed"
    werr,       \* the error from_reader or into_samples returned
    wout,       \* history: the items the sample iterator returned, in order
    wvals,      \* history: the sample value of each item of wout
    \* the decoder as a whole
    variant,    \* the FormatDecoder variant the Decoder holds
    infos       \* history: what each call of Decoder::info returned

dvars == <<features, accepts, pos, faults, pc, idx, found, trials, commit,
           path, fileOpened, result>>
rvars == <<rspec, rlen, rpos, rpc, rerr, rfaults, rshort, rout, rinfo>>
mvars == <<mstream, mnext, mpc, merr, mexp, mcur, mcursor, mout, mvals>>
fvars == <<fhead, fbits, fsinfo, fdec, fstream, fnext, fpc, ferr, cur_block,
           cur_block_len, block_cursor, max_sample_value, fout, fvals>>
vvars == <<vhead, vident, vdec, vstream, vnext, vpc, verr, cur_packet,
           packet_cursor, vout>>
cvars == <<cspec, cbytes, cpos, cout, cvals>>
wvars == <<whead, whdr, wspec, wstream, wnext, wpc, werr, wout, wvals>>
ivars == <<variant, infos>>
vars == <<dvars, rvars, mvars, fvars, vvars, cvars, wvars, ivars>>

(***************************************************************************)
(* DecoderError, AudioFormat and the feature table.                        *)
(***************************************************************************)
Features == {"flac", "mp3", "vorbis", "wav"}
Backends == {"Flac", "Mp3", "Vorbis", "Wav"}

NoErr == [kind |-> "none", ext |-> "", feature |-> ""]
IOError == [kind |-> "IOError", ext |-> "", feature |-> ""]
FormatError == [kind |-> "FormatError", ext |-> "", feature |-> ""]
NoExtension == [kind |-> "NoExtension", ext |-> "", feature |-> ""]
IncompleteData == [kind |-> "IncompleteData", ext |-> "", feature |-> ""]
UnsupportedExtension(e) == [kind |-> "UnsupportedExtension", ext |-> e, feature |-> ""]
DisabledExtension(e, f) == [kind |-> "DisabledExtension", ext |-> e, feature |-> f]

\* The cfg(feature = ...) attribute guarding each backend.
FeatureOf(fmt) ==
    CASE fmt = "Flac" -> "flac"
      [] fmt = "Mp3" -> "mp3"
      [] fmt = "Vorbis" -> "vorbis"
      [] fmt = "Wav" -> "wav"

\* The arms of open with the initialisers of "ogg" and "mp3" exchanged.
OpenArmsOggMp3Swapped ==
    << [ext |-> "wav", feature |-> "wav", format |-> "Wav"],
       [ext |-> "ogg", feature |-> "vorbis", format |-> "Mp3"],
       [ext |-> "mp3", feature |-> "mp3", format |-> "Vorbis"],
       [ext |-> "flac", feature |-> "flac", format |-> "Flac"] >>

\* The arms FormatDecoder::open hands to get_decoder!, in the order written.
OpenArms ==
    << [ext |-> "wav", feature |-> "wav", format |-> "Wav"],
       [ext |-> "ogg", feature |-> "vorbis", format |-> "Vorbis"],
       [ext |-> "mp3", feature |-> "mp3", format |-> "Mp3"],
       [ext |-> "flac", feature |-> "flac", format |-> "Flac"] >>

\* The arms FormatDecoder::from_reader hands to get_decoder!.
SniffArms ==
    << [ext |-> "wav", feature |-> "wav", format |-> "Wav"],
       [ext |-> "ogg", feature |-> "vorbis", format |-> "Vorbis"],
       [ext |-> "mp3", feature |-> "mp3", format |-> "Mp3"],
       [ext |-> "flac", feature |-> "flac", format |-> "Flac"] >>

\* The (format, extension) list from_reader iterates over.
TrialOrder ==
    << [format |-> "Flac", ext |-> "flac"],
       [format |-> "Mp3", ext |-> "mp3"],
       [format |-> "Vorbis", ext |-> "ogg"],
       [format |-> "Wav", ext |-> "wav"] >>

(***************************************************************************)
(* get_decoder!: the match on the extension.  An arm whose feature is      *)
(* compiled in initialises the backend, an arm whose feature is compiled   *)
(* out returns DisabledExtension, anything else is UnsupportedExtension.   *)
(***************************************************************************)
\* get_decoder! with the fall-through arm returning NoExtension.
GetDecoderOtherNoExtension(in_ext, arms, feats) ==
    IF \E i \in 1..Len(arms) : arms[i].ext = in_ext
    THEN LET arm == arms[CHOOSE i \in 1..Len(arms) : arms[i].ext = in_ext]
         IN  IF arm.feature \in feats
             THEN [tag |-> "init", format |-> arm.format, err |-> NoErr]
             ELSE [tag |-> "err", format |-> "none",
                   err |-> DisabledExtension(arm.ext, arm.feature)]
    ELSE [tag |-> "err", format |-> "none", err |-> NoExtension]

\* get_decoder! without the cfg(not(feature)) arms: a compiled-out extension
\* falls through to the last arm.
GetDecoderNoDisabledArm(in_ext, arms, feats) ==
    IF \E i \in 1..Len(arms) : arms[i].ext = in_ext /\ arms[i].feature \in feats
    THEN LET arm == arms[CHOOSE i \in 1..Len(arms) : arms[i].ext = in_ext]
         IN  [tag |-> "init", format |-> arm.format, err |-> NoErr]
    ELSE [tag |-> "err", format |-> "none", err |-> UnsupportedExtension(in_ext)]

GetDecoder(in_ext, arms, feats) ==
    IF \E i \in 1..Len(arms) : arms[i].ext = in_ext
    THEN LET arm == arms[CHOOSE i \in 1..Len(arms) : arms[i].ext = in_ext]
         IN  IF arm.feature \in feats
             THEN [tag |-> "init", format |-> arm.format, err |-> NoErr]
             ELSE [tag |-> "err", format |-> "none",
                   err |-> DisabledExtension(arm.ext, arm.feature)]
    ELSE [tag |-> "err", format |-> "none", err |-> UnsupportedExtension(in_ext)]

(***************************************************************************)
(* Path::extension() followed by OsStr::to_str().  A file name is its      *)
(* dot-separated segments: <<"song", "wav">> is "song.wav", <<"", "wav">>  *)
(* is ".wav", <<"song", "">> is "song.".  BadSeg is a segment that is not  *)
(* valid UTF-8.                                                            *)
(***************************************************************************)
BadSeg == "<non-utf8>"
Segs == {"", "song", "wav", "ogg", "mp3", "flac", "xyz", "WAV", BadSeg}
Paths == UNION {[1..n -> Segs] : n \in 1..MaxSegs}

None == [some |-> FALSE, val |-> ""]
Some(v) == [some |-> TRUE, val |-> v]

\* The OS-level extension: the text after the last dot of the file name,
\* absent when there is no dot, when the only dot is the leading one, or
\* when the name is "..".
OsExtension(name) ==
    IF Len(name) < 2 THEN None
    ELSE IF Len(name) = 2 /\ name[1] = "" THEN None
    ELSE IF Len(name) = 3 /\ \A i \in 1..3 : name[i] = "" THEN None
    ELSE Some(name[Len(name)])

ToStr(os) == IF os.some /\ os.val # BadSeg THEN os ELSE None

PathExtension(name) == ToStr(OsExtension(name))

(***************************************************************************)
(* The backend parsers.  A parse started at position p ends at some later  *)
(* position with the library's verdict: "Ok", "Format" (the bytes are not  *)
(* this format) or "Io" (a read failed).  Read from byte 0 without an I/O  *)
(* failure, the verdict is decided by the bytes (accepts); read from       *)
(* elsewhere the parser sees other bytes and either verdict is possible.   *)
(***************************************************************************)
\* The sets of backends that can accept the same bytes.  The FLAC, Ogg and
\* WAV parsers each want their own signature at byte 0, so at most one of
\* them accepts a source.  The MP3 frame decoder skips data it cannot decode
\* until it finds a frame (Mp3Decoder::from_reader loops on SkippedData), so
\* it may accept a source whose first bytes are another format's header.
Sources == {s \in SUBSET Backends : Cardinality(s \ {"Mp3"}) <= 1}

NativeParse(b, p, acc, canFail) ==
    {[res |-> "Ok", end |-> e] : e \in {x \in (p + 1)..SrcLen : p # 0 \/ b \in acc}}
    \cup {[res |-> "Format", end |-> e] : e \in {x \in p..SrcLen : p # 0 \/ b \notin acc}}
    \cup {[res |-> "Io", end |-> e] : e \in {x \in p..SrcLen : canFail}}

\* hound_err_to_decoder_err, flac_err_as_decoder_err, mp3_err_to_decoder_err,
\* vorbis_err_to_decoder_err: lewton reports every failure, I/O included, as
\* a VorbisError, which becomes FormatError.
ErrToDecoderErr(b, res) ==
    IF res = "Io" /\ b # "Vorbis" THEN IOError ELSE FormatError

\* <Backend>Decoder::from_reader: Ok(decoder) or the converted error.
BackendFromReader(b, p, acc, canFail) ==
    {[ok |-> n.res = "Ok",
      err |-> IF n.res = "Ok" THEN NoErr ELSE ErrToDecoderErr(b, n.res),
      io |-> n.res = "Io",
      end |-> n.end] : n \in NativeParse(b, p, acc, canFail)}

\* <Backend>Decoder::try_decode: Ok(true), Ok(false) on FormatError, or the error.
BackendTryDecode(r) ==
    IF r.ok THEN [tag |-> "ok", val |-> TRUE, err |-> NoErr]
    ELSE IF r.err.kind = "FormatError" THEN [tag |-> "ok", val |-> FALSE, err |-> NoErr]
    ELSE [tag |-> "err", val |-> FALSE, err |-> r.err]

\* FlacDecoder::try_decode is called by FormatDecoder::try_decode but is not
\* part of flac.rs; it is taken to be the same as the other three.
FlacTryDecode(r) == BackendTryDecode(r)

(***************************************************************************)
(* FormatDecoder::try_decode(reader, format): the backend's trial parse    *)
(* when its feature is compiled in (false otherwise), then a seek back to  *)
(* byte 0.  The ? on the backend's result returns before the seek.  Each   *)
(* outcome: what the call returned, where it left the reader, and how many *)
(* I/O failures it met.                                                    *)
(***************************************************************************)
TryDecode(fmt, p, feats, acc, budget) ==
    LET parses ==
            IF FeatureOf(fmt) \in feats
            THEN {[parsed |-> TRUE,
                   parseRes |-> IF x.ok THEN "Ok" ELSE x.err.kind,
                   r |-> IF fmt = "Flac" THEN FlacTryDecode(x) ELSE BackendTryDecode(x),
                   end |-> x.end,
                   io |-> IF x.io THEN 1 ELSE 0]
                  : x \in BackendFromReader(fmt, p, acc, budget > 0)}
            ELSE {[parsed |-> FALSE, parseRes |-> "none",
                   r |-> [tag |-> "ok", val |-> FALSE, err |-> NoErr],
                   end |-> p, io |-> 0]}
        AfterSeek(a) ==
            {[ret |-> IF a.r.val THEN "true" ELSE "false", err |-> NoErr,
              pos |-> 0, io |-> a.io, parsed |-> a.parsed, parseRes |-> a.parseRes,
              cause |-> "none"]}
            \cup
            (IF budget - a.io > 0
             THEN {[ret |-> "err", err |-> IOError,
                    pos |-> a.end, io |-> a.io + 1, parsed |-> a.parsed,
                    parseRes |-> a.parseRes, cause |-> "seek"]}
             ELSE {})
    IN  UNION {IF a.r.tag = "err"
               THEN {[ret |-> "err", err |-> a.r.err, pos |-> a.end, io |-> a.io,
                      parsed |-> a.parsed, parseRes |-> a.parseRes, cause |-> "parse"]}
               ELSE AfterSeek(a)
               : a \in parses}

\* A variant of the closure that keeps the extension of every format tried,
\* whatever try_decode returned.
SniffClosureKeepsAll(o, ext) == Some(ext)

\* The filter_map closure of from_reader: Some(ext) on Ok(true), None otherwise.
SniffClosure(o, ext) == IF o.ret = "true" THEN Some(ext) ELSE None

NoResult == [tag |-> "none", format |-> "none", start |-> 0, err |-> NoErr]
ErrResult(e) == [tag |-> "err", format |-> "none", start |-> 0, err |-> e]
\* A decoder of the given backend, parsed from the bytes starting at `from`;
\* its info().format() is the backend's AudioFormat.
OkDecoder(fmt, from) == [tag |-> "ok", format |-> fmt, start |-> from, err |-> NoErr]

NoCommit == [made |-> FALSE, format |-> "none", start |-> 0]

\* Decoder::from_reader is called on the source.
SniffBegin ==
    /\ pc = "idle"
    /\ pc' = "sniff"
    /\ UNCHANGED <<features, accepts, pos, faults, idx, found, trials, commit,
                   path, fileOpened, result>>
    /\ UNCHANGED <<rvars, mvars, fvars, vvars, cvars, wvars, ivars>>

\* One step of the lazy filter_map(...).next() of from_reader: try_decode on
\* the next backend of the list; the iteration stops at the first Some(ext).
SniffTrial ==
    /\ pc = "sniff"
    /\ idx <= Len(TrialOrder)
    /\ \E o \in TryDecode(TrialOrder[idx].format, pos, features, accepts,
                           MaxFaults - faults) :
          LET picked == SniffClosure(o, TrialOrder[idx].ext) IN
          /\ pos' = o.pos
          /\ faults' = faults + o.io
          /\ trials' = Append(trials,
                 [format |-> TrialOrder[idx].format, start |-> pos, end |-> o.pos,
                  ret |-> o.ret, err |-> o.err, parsed |-> o.parsed,
                  parseRes |-> o.parseRes, cause |-> o.cause])
          /\ IF picked.some
             THEN /\ found' = picked.val
                  /\ idx' = idx
                  /\ pc' = "dispatch"
             ELSE /\ found' = found
                  /\ idx' = idx + 1
                  /\ pc' = IF idx = Len(TrialOrder) THEN "dispatch" ELSE "sniff"
    /\ UNCHANGED <<features, accepts, commit, path, fileOpened, result>>
    /\ UNCHANGED <<rvars, mvars, fvars, vvars, cvars, wvars, ivars>>

\* The rest of from_reader: unwrap_or_default() and get_decoder! on the
\* extension picked, whose arm parses the source for real.
SniffDispatch ==
    /\ pc = "dispatch"
    /\ LET d == GetDecoder(found, SniffArms, features) IN
       IF d.tag = "err"
       THEN /\ result' = ErrResult(d.err)
            /\ UNCHANGED <<pos, faults, commit>>
       ELSE \E r \in BackendFromReader(d.format, pos, accepts, faults < MaxFaults) :
               /\ result' = IF r.ok THEN OkDecoder(d.format, pos) ELSE ErrResult(r.err)
               /\ commit' = [made |-> TRUE, format |-> d.format, start |-> pos]
               /\ pos' = r.end
               /\ faults' = faults + (IF r.io THEN 1 ELSE 0)
    /\ pc' = "done"
    /\ UNCHANGED <<features, accepts, idx, found, trials, path, fileOpened>>
    /\ UNCHANGED <<rvars, mvars, fvars, vvars, cvars, wvars, ivars>>

\* A variant of FormatDecoder::open that opens the file before it looks at
\* the extension, so that a missing file fails every call with IOError.
OpenOutcomesOpensFileFirst(name, feats, acc, canFail) ==
    LET ext == PathExtension(name) IN
    {[res |-> ErrResult(IOError), backend |-> "none", end |-> 0, io |-> FALSE]}
    \cup
    (IF ~ext.some
     THEN {[res |-> ErrResult(NoExtension), backend |-> "none", end |-> 0, io |-> FALSE]}
     ELSE LET d == GetDecoder(ext.val, OpenArms, feats) IN
          IF d.tag = "err"
          THEN {[res |-> ErrResult(d.err), backend |-> "none", end |-> 0, io |-> FALSE]}
          ELSE {[res |-> IF r.ok THEN OkDecoder(d.format, 0) ELSE ErrResult(r.err),
                 backend |-> d.format, end |-> r.end, io |-> r.io]
                : r \in BackendFromReader(d.format, 0, acc, canFail)})

\* FormatDecoder::open(path): the extension decides; only an arm whose
\* feature is compiled in opens the file (<Backend>Decoder::open) and parses
\* it from byte 0.  Each outcome: the result, the backend opened (if any),
\* where the file was left and whether a read failed.
OpenOutcomes(name, feats, acc, canFail) ==
    LET ext == PathExtension(name) IN
    IF ~ext.some
    THEN {[res |-> ErrResult(NoExtension), backend |-> "none", end |-> 0, io |-> FALSE]}
    ELSE LET d == GetDecoder(ext.val, OpenArms, feats) IN
         IF d.tag = "err"
         THEN {[res |-> ErrResult(d.err), backend |-> "none", end |-> 0, io |-> FALSE]}
         ELSE {[res |-> ErrResult(IOError), backend |-> d.format, end |-> 0,
                io |-> FALSE]}    \* File::open failed
              \cup
              {[res |-> IF r.ok THEN OkDecoder(d.format, 0) ELSE ErrResult(r.err),
                backend |-> d.format, end |-> r.end, io |-> r.io]
               : r \in BackendFromReader(d.format, 0, acc, canFail)}

Open(name) ==
    /\ pc = "idle"
    /\ path' = name
    /\ \E o \in OpenOutcomes(name, features, accepts, faults < MaxFaults) :
          /\ result' = o.res
          /\ fileOpened' = (o.backend # "none")
          /\ commit' = IF o.backend # "none"
                       THEN [made |-> TRUE, format |-> o.backend, start |-> 0]
                       ELSE commit
          /\ pos' = o.end
          /\ faults' = faults + (IF o.io THEN 1 ELSE 0)
    /\ pc' = "done"
    /\ UNCHANGED <<features, accepts, idx, found, trials>>
    /\ UNCHANGED <<rvars, mvars, fvars, vvars, cvars, wvars, ivars>>

(***************************************************************************)
(* f32 arithmetic and the AudioInfo record.  A sample value is the exact   *)
(* quotient num/den of the two f32 operands of the division that produced  *)
(* it, before the division rounds it.                                      *)
(***************************************************************************)
\* `x as f32` for an integer x: round to nearest, ties to even, on 24
\* significant bits (exact below 2^24).
RECURSIVE F32Unit(_, _)
F32Unit(a, p) == IF a < 16777216 * p THEN p ELSE F32Unit(a, 2 * p)
AsF32(x) ==
    LET a == IF x < 0 THEN 0 - x ELSE x
        p == F32Unit(a, 1)
        q == a \div p
        r == a % p
        up == 2 * r > p \/ (2 * r = p /\ q % 2 = 1)
        m == (IF up THEN q + 1 ELSE q) * p
    IN  IF x < 0 THEN 0 - m ELSE m

NoValue == [num |-> 0, den |-> 0]
\* x / max for f32 operands x and max.
Quotient(x, max) == [num |-> x, den |-> max]
\* x / max * 2.0 - 1.0.
QuotientTimes2Minus1(x, max) == [num |-> 2 * x - max, den |-> max]

\* `x as f32` for an i32 x, as the product m * u of a significand below 2^24
\* and a power of two: round to nearest, ties to even.  i32::MAX becomes
\* 2^31, which is 8388608 * 256.
RECURSIVE F32UnitOf(_, _)
F32UnitOf(a, u) == IF a \div u < 16777216 THEN u ELSE F32UnitOf(a, 2 * u)
ToF32(x) ==
    LET a == IF x < 0 THEN 0 - x ELSE x
        u == F32UnitOf(a, 1)
        q == a \div u
        r == a % u
        up == 2 * r > u \/ (2 * r = u /\ q % 2 = 1)
        m == IF up THEN q + 1 ELSE q
        n == IF m = 16777216 THEN 8388608 ELSE m
        v == IF m = 16777216 THEN 2 * u ELSE u
    IN  [m |-> IF x < 0 THEN 0 - n ELSE n, u |-> v]
NoF32Value == [num |-> ToF32(0), den |-> ToF32(0)]

\* AudioInfo.
AudioInfo(fmt, rate, ch) == [format |-> fmt, sample_rate |-> rate, channels |-> ch]
NoInfo == AudioInfo("", 0, 0)
\* The variants of FormatDecoder.
Variants == {"Raw", "Wav", "Vorbis", "Mp3", "Flac"}
\* sample_rate and channels as a stream header declares them, and as a
\* decoder that is not built yet holds them.
StreamInfos == [sample_rate : {44100, 48000}, channels : {1, 2}]
IdleStreamInfo == [sample_rate |-> 44100, channels |-> 2]
NoFields == [sample_rate |-> 0, channels |-> 0]

(***************************************************************************)
(* The raw decoder (decoder/raw.rs).  The file is rlen bytes long; a       *)
(* sample is identified by the offset and number of the bytes it was       *)
(* decoded from.                                                           *)
(***************************************************************************)
RawSampleFormats ==
    {"Float32", "Float64", "Unsigned8", "Signed8", "Unsigned16", "Signed16",
     "Unsigned24", "Signed24", "Unsigned32", "Signed32", "Unsigned64", "Signed64"}
Endians == {"Big", "Little"}
RawChannels == {1, 2}
RawOffsets == {0, 1}
\* max_frames: None, or Some(k).
NoMaxFrames == [some |-> FALSE, val |-> 0]
RawMaxFrames == {NoMaxFrames} \cup {Some(k) : k \in 0..MaxFrames}

RawAudioSpecs ==
    [sample_rate : {44100}, channels : RawChannels, sample_format : RawSampleFormats,
     endianness : Endians, start_offset : RawOffsets, max_frames : RawMaxFrames]

\* The byte count a read must return for the match arm that decodes a sample:
\* SIZE_BYTES (size_of the sample type), SIZEOF_FLOAT, SIZEOF_DOUBLE, SIZE.
SizeBytes(fmt) ==
    CASE fmt \in {"Unsigned8", "Signed8"} -> 1
      [] fmt \in {"Unsigned16", "Signed16"} -> 2
      [] fmt \in {"Unsigned24", "Signed24"} -> 3
      [] fmt \in {"Float32", "Unsigned32", "Signed32"} -> 4
      [] fmt \in {"Float64", "Unsigned64", "Signed64"} -> 8

\* The length of the buffer handed to reader.read: the whole buf, except for
\* the 24-bit formats, which pass the slice buf[1..SIZE].
ReadBufLen(fmt) ==
    IF fmt \in {"Unsigned24", "Signed24"} THEN SizeBytes(fmt) - 1 ELSE SizeBytes(fmt)

\* Read::read into a buffer of `want` bytes with `avail` bytes left: Ok(0) at
\* end of file, otherwise Ok(n) with 1 <= n <= min(want, avail) (n below the
\* minimum is a short read), or Err.
ReadOutcomes(want, avail, canShort, canFail) ==
    LET full == IF want < avail THEN want ELSE avail IN
    {[tag |-> "ok", n |-> full, short |-> FALSE, io |-> FALSE]}
    \cup {[tag |-> "ok", n |-> k, short |-> TRUE, io |-> FALSE]
          : k \in {x \in 1..(full - 1) : canShort}}
    \cup {[tag |-> "err", n |-> 0, short |-> FALSE, io |-> TRUE]
          : k \in {x \in {0} : canFail}}

NoItem == [kind |-> "none", at |-> 0, n |-> 0, val |-> 0, err |-> NoErr]
SampleItem(at, n, v) == [kind |-> "sample", at |-> at, n |-> n, val |-> v, err |-> NoErr]
ErrItem(at, e) == [kind |-> "err", at |-> at, n |-> 0, val |-> 0, err |-> e]
EndItem(at) == [kind |-> "end", at |-> at, n |-> 0, val |-> 0, err |-> NoErr]

\* The read_func closures without the Ok(0) arm.
RawReadFuncNoEofArm(spec, r, at) ==
    IF r.tag = "err" THEN ErrItem(at, IOError)
    ELSE IF r.n = SizeBytes(spec.sample_format) THEN SampleItem(at, r.n, 0)
    ELSE ErrItem(at, IncompleteData)

\* The read_func closures built by into_samples: one read, then the match on
\* its result.  max_frames is not consulted.
RawReadFunc(spec, r, at) ==
    IF r.tag = "err" THEN ErrItem(at, IOError)
    ELSE IF r.n = 0 THEN EndItem(at)
    ELSE IF r.n = SizeBytes(spec.sample_format) THEN SampleItem(at, r.n, 0)
    ELSE ErrItem(at, IncompleteData)

\* The AudioInfo RawDecoder::new builds from the spec.
NewRawInfo(spec) == AudioInfo("Raw", spec.sample_rate, spec.channels)

\* Decoder::open_raw with the reader left where File::open put it.
OpenRawNoSeek ==
    /\ variant = "Raw"
    /\ rpc = "closed"
    /\ \/ /\ rpc' = "failed"            \* File::open failed
          /\ rerr' = IOError
          /\ UNCHANGED <<rpos, rfaults, rinfo>>
       \/ /\ rfaults < MaxFaults        \* the seek failed
          /\ rpc' = "failed"
          /\ rerr' = IOError
          /\ rfaults' = rfaults + 1
          /\ UNCHANGED <<rpos, rinfo>>
       \/ /\ rpc' = "open"
          /\ rinfo' = NewRawInfo(rspec)
          /\ rpos' = rpos
          /\ UNCHANGED <<rerr, rfaults>>
    /\ UNCHANGED <<rspec, rlen, rshort, rout>>
    /\ UNCHANGED <<dvars, mvars, fvars, vvars, cvars, wvars, ivars>>

\* Decoder::open_raw: File::open, then RawDecoder::new, which seeks to
\* spec.start_offset (a seek past the end of a file succeeds).
OpenRaw ==
    /\ variant = "Raw"
    /\ rpc = "closed"
    /\ \/ /\ rpc' = "failed"            \* File::open failed
          /\ rerr' = IOError
          /\ UNCHANGED <<rpos, rfaults, rinfo>>
       \/ /\ rfaults < MaxFaults        \* the seek failed
          /\ rpc' = "failed"
          /\ rerr' = IOError
          /\ rfaults' = rfaults + 1
          /\ UNCHANGED <<rpos, rinfo>>
       \/ /\ rpc' = "open"
          /\ rinfo' = NewRawInfo(rspec)
          /\ rpos' = rspec.start_offset
          /\ UNCHANGED <<rerr, rfaults>>
    /\ UNCHANGED <<rspec, rlen, rshort, rout>>
    /\ UNCHANGED <<dvars, mvars, fvars, vvars, cvars, wvars, ivars>>

\* RawDecoder::into_samples: the decoder becomes the iterator.
RawIntoSamples ==
    /\ rpc = "open"
    /\ rpc' = "iter"
    /\ UNCHANGED <<rspec, rlen, rpos, rerr, rfaults, rshort, rout, rinfo>>
    /\ UNCHANGED <<dvars, mvars, fvars, vvars, cvars, wvars, ivars>>

\* RawSampleIterator::next.  A pull at end of file that follows another one
\* changes nothing and is left out.
RawNext ==
    /\ rpc = "iter"
    /\ ~(Len(rout) > 0 /\ rout[Len(rout)].kind = "end")
    /\ LET avail == IF rlen > rpos THEN rlen - rpos ELSE 0 IN
       \E r \in ReadOutcomes(ReadBufLen(rspec.sample_format), avail,
                             rshort < MaxShort, rfaults < MaxFaults) :
          /\ rout' = Append(rout, RawReadFunc(rspec, r, rpos))
          /\ rpos' = rpos + r.n
          /\ rfaults' = rfaults + (IF r.io THEN 1 ELSE 0)
          /\ rshort' = rshort + (IF r.short THEN 1 ELSE 0)
    /\ UNCHANGED <<rspec, rlen, rpc, rerr, rinfo>>
    /\ UNCHANGED <<dvars, mvars, fvars, vvars, cvars, wvars, ivars>>

(***************************************************************************)
(* The MP3 adapter (decoder/mp3.rs).  minimp3's next_frame returns, call   *)
(* by call, the elements of mstream and then Eof.                          *)
(***************************************************************************)
Rates == {44100, 48000}
Mp3Channels == {1, 2}
\* The sample data of a frame.
FrameDatas == {<<>>, <<32767>>, <<-32768, 16384>>}

Mp3Units ==
    [kind : {"frame"}, rate : Rates, channels : Mp3Channels, data : FrameDatas]
    \cup [kind : {"skip", "io", "insufficient"}, rate : {0}, channels : {0},
          data : {<<>>}]

Mp3Streams == UNION {[1..n -> Mp3Units] : n \in 0..MaxUnits}

NoFrame == [id |-> 0, rate |-> 0, channels |-> 0, data |-> <<>>]
FrameOf(stream, i) ==
    [id |-> i, rate |-> stream[i].rate, channels |-> stream[i].channels,
     data |-> stream[i].data]

\* mp3_err_to_decoder_err with every error converted to IOError.
Mp3ErrAllIo(kind) == IOError

\* The panic of the unimplemented!() arm of mp3_err_to_decoder_err: the call
\* returns no DecoderError and the caller does not return either.
Unimplemented == [kind |-> "unimplemented!()", ext |-> "", feature |-> ""]

\* mp3_err_to_decoder_err: Io and InsufficientData are converted, any other
\* minimp3 error (SkippedData, Eof) hits unimplemented!().
Mp3ErrToDecoderErr(kind) ==
    CASE kind = "io" -> IOError
      [] kind = "insufficient" -> FormatError
      [] OTHER -> Unimplemented

\* The loop of Mp3Decoder::from_reader with Eof handed to the converter like
\* any other error.
RECURSIVE Mp3FirstFrameConvertsEof(_, _)
Mp3FirstFrameConvertsEof(stream, i) ==
    IF i > Len(stream)
    THEN [kind |-> "err", err |-> Mp3ErrToDecoderErr("eof"), at |-> i, next |-> i]
    ELSE CASE stream[i].kind = "frame" ->
                [kind |-> "frame", err |-> NoErr, at |-> i, next |-> i + 1]
           [] stream[i].kind = "skip" -> Mp3FirstFrameConvertsEof(stream, i + 1)
           [] OTHER ->
                [kind |-> "err", err |-> Mp3ErrToDecoderErr(stream[i].kind),
                 at |-> i, next |-> i + 1]

\* The loop of Mp3Decoder::from_reader from the i-th result on: the first
\* frame (empty or not), or the error.
RECURSIVE Mp3FirstFrame(_, _)
Mp3FirstFrame(stream, i) ==
    IF i > Len(stream)
    THEN [kind |-> "err", err |-> FormatError, at |-> i, next |-> i]
    ELSE CASE stream[i].kind = "frame" ->
                [kind |-> "frame", err |-> NoErr, at |-> i, next |-> i + 1]
           [] stream[i].kind = "skip" -> Mp3FirstFrame(stream, i + 1)
           [] OTHER ->
                [kind |-> "err", err |-> Mp3ErrToDecoderErr(stream[i].kind),
                 at |-> i, next |-> i + 1]

\* The loop of Mp3SampleIterator::next without the channel count check.
RECURSIVE Mp3NextFrameNoChannelCheck(_, _, _)
Mp3NextFrameNoChannelCheck(stream, i, exp) ==
    IF i > Len(stream)
    THEN [kind |-> "eof", err |-> NoErr, at |-> i, next |-> i]
    ELSE CASE stream[i].kind = "frame" ->
                IF Len(stream[i].data) = 0
                THEN Mp3NextFrameNoChannelCheck(stream, i + 1, exp)
                ELSE IF stream[i].rate # exp.rate
                THEN [kind |-> "err", err |-> FormatError, at |-> i, next |-> i + 1]
                ELSE [kind |-> "frame", err |-> NoErr, at |-> i, next |-> i + 1]
           [] stream[i].kind = "skip" -> Mp3NextFrameNoChannelCheck(stream, i + 1, exp)
           [] OTHER ->
                [kind |-> "err", err |-> Mp3ErrToDecoderErr(stream[i].kind),
                 at |-> i, next |-> i + 1]

\* The loop of Mp3SampleIterator::next from the i-th result on: the next
\* non-empty frame with the expected parameters, an error, or end-of-stream.
RECURSIVE Mp3NextFrame(_, _, _)
Mp3NextFrame(stream, i, exp) ==
    IF i > Len(stream)
    THEN [kind |-> "eof", err |-> NoErr, at |-> i, next |-> i]
    ELSE CASE stream[i].kind = "frame" ->
                IF Len(stream[i].data) = 0
                THEN Mp3NextFrame(stream, i + 1, exp)
                ELSE IF stream[i].rate # exp.rate
                THEN [kind |-> "err", err |-> FormatError, at |-> i, next |-> i + 1]
                ELSE IF stream[i].channels # exp.channels
                THEN [kind |-> "err", err |-> FormatError, at |-> i, next |-> i + 1]
                ELSE [kind |-> "frame", err |-> NoErr, at |-> i, next |-> i + 1]
           [] stream[i].kind = "skip" -> Mp3NextFrame(stream, i + 1, exp)
           [] OTHER ->
                [kind |-> "err", err |-> Mp3ErrToDecoderErr(stream[i].kind),
                 at |-> i, next |-> i + 1]

\* Mp3Decoder::from_reader: reads the first frame and keeps its parameters.
\* A panic in the converter ends the call without a result.
Mp3FromReader ==
    /\ variant = "Mp3"
    /\ mpc = "closed"
    /\ LET f == Mp3FirstFrame(mstream, mnext) IN
       /\ mnext' = f.next
       /\ IF f.kind = "frame"
          THEN /\ mpc' = "open"
               /\ mcur' = FrameOf(mstream, f.at)
               /\ mexp' = [rate |-> mstream[f.at].rate,
                           channels |-> mstream[f.at].channels]
               /\ merr' = merr
          ELSE IF f.err = Unimplemented
          THEN /\ mpc' = "panicked"
               /\ UNCHANGED <<merr, mcur, mexp>>
          ELSE /\ mpc' = "failed"
               /\ merr' = f.err
               /\ UNCHANGED <<mcur, mexp>>
    /\ UNCHANGED <<mstream, mcursor, mout, mvals>>
    /\ UNCHANGED <<dvars, rvars, fvars, vvars, cvars, wvars, ivars>>

\* Mp3Decoder::into_samples: the iterator starts on the first frame.
Mp3IntoSamples ==
    /\ mpc = "open"
    /\ mpc' = "iter"
    /\ mcursor' = 0
    /\ UNCHANGED <<mstream, mnext, merr, mexp, mcur, mout, mvals>>
    /\ UNCHANGED <<dvars, rvars, fvars, vvars, cvars, wvars, ivars>>

\* The division of next with 32768 for i16::MAX.
Mp3SampleBy32768(sample) == Quotient(AsF32(sample), AsF32(2 ^ 15))

\* self.cur_frame.data[self.frame_cursor] as f32 / i16::MAX as f32.
Mp3Sample(sample) == Quotient(AsF32(sample), AsF32(2 ^ 15 - 1))

\* Mp3SampleIterator::next.  An item records the frame (its index in
\* mstream) and the place in it a sample came from, or the result that
\* caused an error; val is the i16 sample, which next divides by i16::MAX.
\* A pull that panics in mp3_err_to_decoder_err leaves an item of kind panic.
Mp3Next ==
    /\ mpc = "iter"
    /\ Len(mout) < MaxPulls
    /\ IF mcursor >= Len(mcur.data)
       THEN LET f == Mp3NextFrame(mstream, mnext, mexp) IN
            /\ mnext' = f.next
            /\ IF f.kind = "frame"
               THEN /\ mcur' = FrameOf(mstream, f.at)
                    /\ mcursor' = 1
                    /\ mout' = Append(mout, SampleItem(f.at, 0, mstream[f.at].data[1]))
                    /\ mvals' = Append(mvals, Mp3Sample(mstream[f.at].data[1]))
                    /\ mpc' = mpc
               ELSE /\ mcur' = mcur
                    /\ mcursor' = 0
                    /\ mout' = Append(mout,
                                      IF f.kind = "eof" THEN EndItem(f.at)
                                      ELSE IF f.err = Unimplemented
                                      THEN [kind |-> "panic", at |-> f.at, n |-> 0,
                                            val |-> 0, err |-> NoErr]
                                      ELSE ErrItem(f.at, f.err))
                    /\ mvals' = Append(mvals, NoValue)
                    /\ mpc' = IF f.kind = "err" /\ f.err = Unimplemented
                              THEN "panicked" ELSE mpc
       ELSE /\ mout' = Append(mout, SampleItem(mcur.id, mcursor, mcur.data[mcursor + 1]))
            /\ mvals' = Append(mvals, Mp3Sample(mcur.data[mcursor + 1]))
            /\ mcursor' = mcursor + 1
            /\ mpc' = mpc
            /\ UNCHANGED <<mnext, mcur>>
    /\ UNCHANGED <<mstream, merr, mexp>>
    /\ UNCHANGED <<dvars, rvars, fvars, vvars, cvars, wvars, ivars>>

(***************************************************************************)
(* The FLAC adapter (decoder/flac.rs).  claxon's read_next_or_eof returns, *)
(* call by call, the elements of fstream and then Ok(None).  A block is    *)
(* its buffer: Block::len() is the length of the buffer into_buffer()      *)
(* hands back.                                                             *)
(***************************************************************************)
I32Max == 2147483647
\* The largest sample of a stream of the given bits per sample.
LargestSample(bits) == (2 ^ (bits - 2) - 1) * 2 + 1
\* The sample data of a block.
BlockDatas(bits) == {<<>>, <<LargestSample(bits)>>, <<-2, 3>>}
FlacUnits(bits) ==
    [kind : {"block"}, data : BlockDatas(bits)] \cup [kind : {"err"}, data : {<<>>}]
FlacStreams(bits) == UNION {[1..n -> FlacUnits(bits)] : n \in 0..MaxBlocks}
FlacHeads == {"ok", "IoError", "FormatError", "Unsupported"}
FlacBits == {4, 8, 16, 24, 32}

\* flac_err_as_decoder_err.
FlacErrAsDecoderErr(e) == IF e = "IoError" THEN IOError ELSE FormatError

\* (i32::MAX >> (32 - bits_per_sample)) as f32, always 32767.
MaxSampleValueFixed16(bits) == ToF32(2 ^ 15 - 1)

\* (i32::MAX >> (32 - bits_per_sample)) as f32.
MaxSampleValue(bits) == ToF32(I32Max \div (2 ^ (32 - bits)))

\* cur_block[block_cursor] as f32 / max_sample_value.
FlacSample(sample, max) == Quotient(ToF32(sample), max)

PanicItem(at) == [kind |-> "panic", at |-> at, n |-> 0, val |-> 0, err |-> NoErr]

\* The loop of FlacSampleIterator::next reading on after an Err(_).
RECURSIVE FlacReadBlockSkipsErrors(_, _, _)
FlacReadBlockSkipsErrors(stream, i, len) ==
    IF i > Len(stream)
    THEN [kind |-> "end", at |-> i, next |-> i, len |-> len]
    ELSE IF stream[i].kind = "block"
    THEN IF Len(stream[i].data) = 0
         THEN FlacReadBlockSkipsErrors(stream, i + 1, 0)
         ELSE [kind |-> "block", at |-> i, next |-> i + 1,
               len |-> Len(stream[i].data)]
    ELSE FlacReadBlockSkipsErrors(stream, i + 1, len)

\* The loop of FlacSampleIterator::next from the read on: block_cursor is 0
\* and cur_block is vec![].  An empty block sets cur_block_len to 0 and the
\* loop reads again; Ok(None) and Err(_) return None and leave cur_block_len
\* as it is (len).
RECURSIVE FlacReadBlock(_, _, _)
FlacReadBlock(stream, i, len) ==
    IF i > Len(stream)
    THEN [kind |-> "end", at |-> i, next |-> i, len |-> len]
    ELSE IF stream[i].kind = "block"
    THEN IF Len(stream[i].data) = 0
         THEN FlacReadBlock(stream, i + 1, 0)
         ELSE [kind |-> "block", at |-> i, next |-> i + 1,
               len |-> Len(stream[i].data)]
    ELSE [kind |-> "end", at |-> i, next |-> i + 1, len |-> len]

\* FlacDecoder::from_reader.
FlacFromReader ==
    /\ variant = "Flac"
    /\ fpc = "closed"
    /\ IF fhead = "ok"
       THEN fpc' = "open" /\ ferr' = ferr /\ fdec' = fsinfo
       ELSE fpc' = "failed" /\ ferr' = FlacErrAsDecoderErr(fhead) /\ fdec' = fdec
    /\ UNCHANGED <<fhead, fbits, fsinfo, fstream, fnext, cur_block, cur_block_len,
                   block_cursor, max_sample_value, fout, fvals>>
    /\ UNCHANGED <<dvars, rvars, mvars, vvars, cvars, wvars, ivars>>

\* FlacDecoder::into_samples, FlacSampleIterator::new.
FlacIntoSamples ==
    /\ fpc = "open"
    /\ fpc' = "iter"
    /\ cur_block' = <<>>
    /\ max_sample_value' = MaxSampleValue(fbits)
    /\ cur_block_len' = 0
    /\ block_cursor' = 0
    /\ UNCHANGED <<fhead, fbits, fsinfo, fdec, fstream, fnext, ferr, fout, fvals>>
    /\ UNCHANGED <<dvars, rvars, mvars, vvars, cvars, wvars, ivars>>

\* FlacSampleIterator::next.  A sample item records the block (its index in
\* fstream) and the place in it the sample came from; val is the i32 sample,
\* which next divides by max_sample_value.  Indexing cur_block past its end
\* panics.
FlacNext ==
    /\ fpc = "iter"
    /\ Len(fout) < MaxPulls
    /\ IF block_cursor < cur_block_len
       THEN /\ IF block_cursor < Len(cur_block)
               THEN /\ fout' = Append(fout, SampleItem(fnext - 1, block_cursor,
                                                       cur_block[block_cursor + 1]))
                    /\ fvals' = Append(fvals, FlacSample(cur_block[block_cursor + 1],
                                                         max_sample_value))
                    /\ block_cursor' = block_cursor + 1
                    /\ fpc' = fpc
               ELSE /\ fout' = Append(fout, PanicItem(fnext))
                    /\ fvals' = Append(fvals, NoF32Value)
                    /\ fpc' = "panicked"
                    /\ block_cursor' = block_cursor
            /\ UNCHANGED <<fnext, cur_block, cur_block_len>>
       ELSE LET b == FlacReadBlock(fstream, fnext, cur_block_len) IN
            /\ fnext' = b.next
            /\ cur_block_len' = b.len
            /\ fpc' = fpc
            /\ IF b.kind = "block"
               THEN /\ cur_block' = fstream[b.at].data
                    /\ block_cursor' = 1
                    /\ fout' = Append(fout, SampleItem(b.at, 0, fstream[b.at].data[1]))
                    /\ fvals' = Append(fvals, FlacSample(fstream[b.at].data[1],
                                                         max_sample_value))
               ELSE /\ cur_block' = <<>>
                    /\ block_cursor' = 0
                    /\ fout' = Append(fout, EndItem(b.at))
                    /\ fvals' = Append(fvals, NoF32Value)
    /\ UNCHANGED <<fhead, fbits, fsinfo, fdec, fstream, ferr, max_sample_value>>
    /\ UNCHANGED <<dvars, rvars, mvars, vvars, cvars, wvars, ivars>>

(***************************************************************************)
(* The Vorbis adapter (decoder/vorbis.rs).  lewton's read_dec_packet_itl   *)
(* returns, call by call, the elements of vstream and then Ok(None).       *)
(***************************************************************************)
PacketDatas == {<<>>, <<7>>, <<-8, 9>>}
VorbisUnits ==
    [kind : {"packet"}, data : PacketDatas] \cup [kind : {"err"}, data : {<<>>}]
VorbisStreams == UNION {[1..n -> VorbisUnits] : n \in 0..MaxPackets}
VorbisHeads == {"ok", "BadHeader", "OggError"}

\* vorbis_err_to_decoder_err: every VorbisError becomes a FormatError.
VorbisErrToDecoderErr(e) == FormatError

NoPacket == [some |-> FALSE, id |-> 0, data |-> <<>>]
PacketOf(stream, i) == [some |-> TRUE, id |-> i, data |-> stream[i].data]

\* One call of reader.read_dec_packet_itl(), the i-th.
ReadDecPacketItl(stream, i) ==
    IF i > Len(stream)
    THEN [tag |-> "ok", packet |-> NoPacket, next |-> i]
    ELSE IF stream[i].kind = "packet"
    THEN [tag |-> "ok", packet |-> PacketOf(stream, i), next |-> i + 1]
    ELSE [tag |-> "err", packet |-> NoPacket, next |-> i + 1]

\* The while loop of OggSampleIterator::next, with next_packet inlined: the
\* item returned and the iterator's fields afterwards.  next_packet sets
\* packet_cursor to 0 before it reads and assigns cur_packet only when the
\* read succeeds.
RECURSIVE OggNextLoop(_, _, _, _)
OggNextLoop(stream, i, cur, cursor) ==
    IF ~cur.some
    THEN [item |-> EndItem(i), cur |-> cur, cursor |-> cursor, next |-> i]
    ELSE LET r == ReadDecPacketItl(stream, i) IN
         IF cursor < Len(cur.data)
         THEN IF cursor + 1 >= Len(cur.data)
              THEN IF r.tag = "err"
                   THEN [item |-> ErrItem(i, VorbisErrToDecoderErr("BadAudio")),
                         cur |-> cur, cursor |-> 0, next |-> r.next]
                   ELSE [item |-> SampleItem(cur.id, cursor, cur.data[cursor + 1]),
                         cur |-> r.packet, cursor |-> 0, next |-> r.next]
              ELSE [item |-> SampleItem(cur.id, cursor, cur.data[cursor + 1]),
                    cur |-> cur, cursor |-> cursor + 1, next |-> i]
         ELSE IF r.tag = "err"
              THEN [item |-> ErrItem(i, VorbisErrToDecoderErr("BadAudio")),
                    cur |-> cur, cursor |-> 0, next |-> r.next]
              ELSE OggNextLoop(stream, r.next, r.packet, 0)

\* VorbisDecoder::from_reader.
VorbisFromReader ==
    /\ variant = "Vorbis"
    /\ vpc = "closed"
    /\ IF vhead = "ok"
       THEN vpc' = "open" /\ verr' = verr /\ vdec' = vident
       ELSE vpc' = "failed" /\ verr' = VorbisErrToDecoderErr(vhead) /\ vdec' = vdec
    /\ UNCHANGED <<vhead, vident, vstream, vnext, cur_packet, packet_cursor, vout>>
    /\ UNCHANGED <<dvars, rvars, mvars, fvars, cvars, wvars, ivars>>

\* VorbisDecoder::into_samples: reads the first packet.
VorbisIntoSamples ==
    /\ vpc = "open"
    /\ LET r == ReadDecPacketItl(vstream, vnext) IN
       /\ vnext' = r.next
       /\ IF r.tag = "err"
          THEN /\ vpc' = "failed"
               /\ verr' = VorbisErrToDecoderErr("BadAudio")
               /\ UNCHANGED <<cur_packet, packet_cursor>>
          ELSE /\ vpc' = "iter"
               /\ cur_packet' = r.packet
               /\ packet_cursor' = 0
               /\ verr' = verr
    /\ UNCHANGED <<vhead, vident, vdec, vstream, vout>>
    /\ UNCHANGED <<dvars, rvars, mvars, fvars, cvars, wvars, ivars>>

\* OggSampleIterator::next.
OggNext ==
    /\ vpc = "iter"
    /\ Len(vout) < MaxPulls
    /\ LET o == OggNextLoop(vstream, vnext, cur_packet, packet_cursor) IN
       /\ vout' = Append(vout, o.item)
       /\ cur_packet' = o.cur
       /\ packet_cursor' = o.cursor
       /\ vnext' = o.next
    /\ UNCHANGED <<vhead, vident, vdec, vstream, vpc, verr>>
    /\ UNCHANGED <<dvars, rvars, mvars, fvars, cvars, wvars, ivars>>

(***************************************************************************)
(* The WAV adapter (decoder/wav.rs).  hound's sample iterator returns,     *)
(* call by call, the elements of wstream and then None.                    *)
(***************************************************************************)
WavBits == {8, 12, 16, 24, 32, 64}
WavSampleFormats == {"Int", "Float"}
WavSpecs ==
    [bits_per_sample : WavBits, sample_format : WavSampleFormats,
     sample_rate : {44100}, channels : {2}]
IdleWavSpec ==
    [bits_per_sample |-> 16, sample_format |-> "Int", sample_rate |-> 44100,
     channels |-> 2]
NoWavSpec ==
    [bits_per_sample |-> 0, sample_format |-> "", sample_rate |-> 0, channels |-> 0]
WavHeads == {"ok", "IoError", "FormatError", "Unsupported"}

\* The samples hound reads from a stream of the given spec: integers of the
\* declared width, or the f32 values 0.0, 1.0 and -1.0.
WavSampleValues(spec) ==
    IF spec.sample_format = "Float" THEN {0, 1, -1}
    ELSE IF spec.bits_per_sample <= 32
    THEN {0, LargestSample(spec.bits_per_sample), 0 - LargestSample(spec.bits_per_sample)}
    ELSE {0}
WavUnits(spec) ==
    [kind : {"sample"}, val : WavSampleValues(spec), err : {""}]
    \cup [kind : {"err"}, val : {0}, err : {"IoError", "FormatError"}]
WavStreams(spec) == UNION {[1..n -> WavUnits(spec)] : n \in 0..MaxWavUnits}

\* hound_err_to_decoder_err.
HoundErrToDecoderErr(e) == IF e = "IoError" THEN IOError ELSE FormatError

\* The match of WavDecoder::into_samples accepting every format of a
\* supported bit depth.
WavSupportedAnyFormat(bits, fmt) == bits \in {8, 16, 24, 32}

\* The match of WavDecoder::into_samples: the arms before the last one.
WavSupported(bits, fmt) ==
    <<bits, fmt>> \in {<<8, "Int">>, <<16, "Int">>, <<24, "Int">>, <<32, "Int">>,
                       <<32, "Float">>}

\* const MAX_I24: i32 = 0x7fffff.
WAV_MAX_I24 == 2 ^ 23 - 1

\* The divisor of every integer arm taken as i32::MAX.
WavDivisorAlwaysI32Max(bits) == I32Max

\* The divisor of the integer arm for the given bit depth.
WavDivisor(bits) ==
    CASE bits = 8 -> 2 ^ 7 - 1
      [] bits = 16 -> 2 ^ 15 - 1
      [] bits = 24 -> WAV_MAX_I24
      [] bits = 32 -> I32Max

\* The f32 x itself, written as the quotient x/1.
PassThrough(x) == [num |-> x, den |-> ToF32(1)]

\* The closure each arm maps over hound's samples.
WavSample(spec, sample) ==
    IF spec.sample_format = "Float"
    THEN PassThrough(ToF32(sample))
    ELSE Quotient(ToF32(sample), ToF32(WavDivisor(spec.bits_per_sample)))

\* WavDecoder::from_reader.
WavFromReader ==
    /\ variant = "Wav"
    /\ wpc = "closed"
    /\ IF whead = "ok"
       THEN wpc' = "open" /\ wspec' = whdr /\ werr' = werr
       ELSE wpc' = "failed" /\ wspec' = wspec /\ werr' = HoundErrToDecoderErr(whead)
    /\ UNCHANGED <<whead, whdr, wstream, wnext, wout, wvals>>
    /\ UNCHANGED <<dvars, rvars, mvars, fvars, vvars, cvars, ivars>>

\* WavDecoder::into_samples.
WavIntoSamples ==
    /\ wpc = "open"
    /\ IF WavSupported(wspec.bits_per_sample, wspec.sample_format)
       THEN wpc' = "iter" /\ werr' = werr
       ELSE wpc' = "failed" /\ werr' = FormatError
    /\ UNCHANGED <<whead, whdr, wspec, wstream, wnext, wout, wvals>>
    /\ UNCHANGED <<dvars, rvars, mvars, fvars, vvars, cvars, ivars>>

\* next of the mapped hound iterator.  A sample item records the result of
\* hound (its index in wstream) it came from.
WavNext ==
    /\ wpc = "iter"
    /\ Len(wout) < MaxPulls
    /\ IF wnext > Len(wstream)
       THEN /\ wout' = Append(wout, EndItem(wnext))
            /\ wvals' = Append(wvals, NoF32Value)
            /\ wnext' = wnext
       ELSE /\ wnext' = wnext + 1
            /\ IF wstream[wnext].kind = "sample"
               THEN /\ wout' = Append(wout, SampleItem(wnext, 0, wstream[wnext].val))
                    /\ wvals' = Append(wvals, WavSample(wspec, wstream[wnext].val))
               ELSE /\ wout' = Append(wout,
                                      ErrItem(wnext, HoundErrToDecoderErr(wstream[wnext].err)))
                    /\ wvals' = Append(wvals, NoF32Value)
    /\ UNCHANGED <<whead, whdr, wspec, wstream, wpc, werr>>
    /\ UNCHANGED <<dvars, rvars, mvars, fvars, vvars, cvars, ivars>>

(***************************************************************************)
(* Decoder::info (decoder/mod.rs): the info() of the variant held.  The    *)
(* Decoder exists from a successful open until into_samples consumes it.   *)
(***************************************************************************)
RawDecoderInfo == rinfo
WavDecoderInfo == AudioInfo("Wav", wspec.sample_rate, wspec.channels)
VorbisDecoderInfo == AudioInfo("Vorbis", vdec.sample_rate, vdec.channels)
Mp3DecoderInfo == AudioInfo("Mp3", mexp.rate, mexp.channels)
FlacDecoderInfo == AudioInfo("Flac", fdec.sample_rate, fdec.channels)

FormatDecoderInfo ==
    CASE variant = "Raw" -> RawDecoderInfo
      [] variant = "Wav" -> WavDecoderInfo
      [] variant = "Vorbis" -> VorbisDecoderInfo
      [] variant = "Mp3" -> Mp3DecoderInfo
      [] variant = "Flac" -> FlacDecoderInfo

DecoderBuilt ==
    CASE variant = "Raw" -> rpc = "open"
      [] variant = "Wav" -> wpc = "open"
      [] variant = "Vorbis" -> vpc = "open"
      [] variant = "Mp3" -> mpc = "open"
      [] variant = "Flac" -> fpc = "open"

\* Decoder::info with the raw source rewound by the call.
InfoRewindsSource ==
    /\ DecoderBuilt
    /\ Len(infos) < MaxInfos
    /\ infos' = Append(infos, FormatDecoderInfo)
    /\ rpos' = 0
    /\ UNCHANGED <<rspec, rlen, rpc, rerr, rfaults, rshort, rout, rinfo>>
    /\ UNCHANGED variant
    /\ UNCHANGED <<dvars, mvars, fvars, vvars, cvars, wvars>>

\* Decoder::info.
Info ==
    /\ DecoderBuilt
    /\ Len(infos) < MaxInfos
    /\ infos' = Append(infos, FormatDecoderInfo)
    /\ UNCHANGED variant
    /\ UNCHANGED <<dvars, rvars, mvars, fvars, vvars, cvars, wvars>>

(***************************************************************************)
(* The raw sample codec (the read_func closures of decoder/raw.rs) applied *)
(* to a source whose bytes are known and whose reads never fail or come    *)
(* short.  Sample values are modelled for the 8-, 16- and 24-bit integer   *)
(* formats; a value is the exact quotient num/den of the two f32 operands  *)
(* of the division, before the f32 operations round it.                    *)
(***************************************************************************)
CodecFormats ==
    {"Unsigned8", "Signed8", "Unsigned16", "Signed16", "Unsigned24", "Signed24"}

Zeros(n) == [i \in 1..n |-> 0]
Reverse(b) == [i \in 1..Len(b) |-> b[Len(b) + 1 - i]]

\* The byte strings of width w a source is made of.
BytePatterns(w) ==
    {[i \in 1..w |-> 0], [i \in 1..w |-> 255],
     [i \in 1..w |-> IF i = 1 THEN 127 ELSE 255],
     [i \in 1..w |-> IF i = w THEN 127 ELSE 255],
     [i \in 1..w |-> IF i = 1 THEN 128 ELSE 0],
     [i \in 1..w |-> IF i = w THEN 128 ELSE 0],
     [i \in 1..w |-> IF i = 1 THEN 1 ELSE 0],
     [i \in 1..w |-> IF i = w THEN 1 ELSE 0]}

RECURSIVE PatternRuns(_, _)
PatternRuns(n, w) ==
    IF n = 0 THEN {<<>>}
    ELSE {a \o b : a \in PatternRuns(n - 1, w), b \in BytePatterns(w)}

CodecSources(w) == UNION {PatternRuns(n, w) : n \in 0..MaxCodecSamples}

\* uN::from_be_bytes, uN::from_le_bytes.
RECURSIVE FromBeBytes(_)
FromBeBytes(b) ==
    IF Len(b) = 0 THEN 0
    ELSE FromBeBytes(SubSeq(b, 1, Len(b) - 1)) * 256 + b[Len(b)]
FromLeBytes(b) == FromBeBytes(Reverse(b))

\* iN::from_be_bytes, iN::from_le_bytes: two's complement.
SignedFromBeBytes(b) ==
    (IF b[1] >= 128 THEN b[1] - 256 ELSE b[1]) * (256 ^ (Len(b) - 1))
        + FromBeBytes(Tail(b))
SignedFromLeBytes(b) == SignedFromBeBytes(Reverse(b))

\* <$sample_type>::MAX.
TypeMax(fmt) ==
    CASE fmt = "Unsigned8" -> 2 ^ 8 - 1
      [] fmt = "Signed8" -> 2 ^ 7 - 1
      [] fmt = "Unsigned16" -> 2 ^ 16 - 1
      [] fmt = "Signed16" -> 2 ^ 15 - 1
MAX_U24 == (2 ^ 24) + ((2 ^ 24) - 1)
MAX_I24 == (2 ^ 23) + ((2 ^ 23) - 1)

\* The buffer after reader.read has stored the bytes it returned: buf for
\* the whole-buffer reads, buf[1..SIZE] of the 5-byte buffer for the 24-bit
\* formats.
FillBuf(fmt, bytes) ==
    IF fmt \in {"Unsigned24", "Signed24"}
    THEN <<0>> \o bytes \o Zeros(4 - Len(bytes))
    ELSE bytes \o Zeros(SizeBytes(fmt) - Len(bytes))

\* The Ok(SIZE) arm of each read_func: the sample decoded from buf.
DecodeSample(fmt, endian, buf) ==
    CASE fmt \in {"Unsigned8", "Unsigned16"} ->
            QuotientTimes2Minus1(
                AsF32(IF endian = "Big" THEN FromBeBytes(buf) ELSE FromLeBytes(buf)),
                AsF32(TypeMax(fmt)))
      [] fmt \in {"Signed8", "Signed16"} ->
            Quotient(
                AsF32(IF endian = "Big" THEN SignedFromBeBytes(buf)
                                        ELSE SignedFromLeBytes(buf)),
                AsF32(TypeMax(fmt)))
      [] fmt = "Unsigned24" ->
            QuotientTimes2Minus1(
                AsF32(IF endian = "Big" THEN FromBeBytes(SubSeq(buf, 1, 4))
                                        ELSE FromBeBytes(SubSeq(buf, 2, 5))),
                AsF32(MAX_U24))
      [] fmt = "Signed24" ->
            Quotient(
                AsF32(IF endian = "Big" THEN SignedFromBeBytes(SubSeq(buf, 1, 4))
                                        ELSE SignedFromBeBytes(SubSeq(buf, 2, 5))),
                AsF32(MAX_I24))

CodecSpecs ==
    {sp \in RawAudioSpecs :
        /\ sp.sample_format \in CodecFormats
        /\ sp.channels = 1
        /\ sp.start_offset = 0
        /\ sp.max_frames = NoMaxFrames}

\* RawSampleIterator::next on the source cbytes: the read, the match on its
\* result (RawReadFunc) and, in the Ok(SIZE) arm, the decoding.
CodecNext ==
    /\ ~(Len(cout) > 0 /\ cout[Len(cout)].kind = "end")
    /\ LET fmt == cspec.sample_format
           avail == Len(cbytes) - cpos
       IN \E r \in ReadOutcomes(ReadBufLen(fmt), avail, FALSE, FALSE) :
            LET item == RawReadFunc(cspec, r, cpos)
                buf == FillBuf(fmt, SubSeq(cbytes, cpos + 1, cpos + r.n))
            IN /\ cout' = Append(cout, item)
               /\ cvals' = Append(cvals,
                                  IF item.kind = "sample"
                                  THEN DecodeSample(fmt, cspec.endianness, buf)
                                  ELSE NoValue)
               /\ cpos' = cpos + r.n
    /\ UNCHANGED <<cspec, cbytes>>
    /\ UNCHANGED <<dvars, rvars, mvars, fvars, vvars, wvars, ivars>>

(***************************************************************************)
(* The specifications: one per component, the others at rest.              *)
(***************************************************************************)
IdleRawSpec ==
    [sample_rate |-> 44100, channels |-> 1, sample_format |-> "Unsigned8",
     endianness |-> "Little", start_offset |-> 0, max_frames |-> NoMaxFrames]
NoExpect == [rate |-> 0, channels |-> 0]

\* The dispatch facade: any set of features, any source.
InitDispatch ==
    /\ features \in SUBSET Features
    /\ accepts \in Sources
    /\ pos = 0
    /\ faults = 0
    /\ pc = "idle"
    /\ idx = 1
    /\ found = ""
    /\ trials = <<>>
    /\ commit = NoCommit
    /\ path = <<>>
    /\ fileOpened = FALSE
    /\ result = NoResult
    /\ rspec = IdleRawSpec
    /\ rlen = 0
    /\ rpos = 0
    /\ rpc = "closed"
    /\ rerr = NoErr
    /\ rfaults = 0
    /\ rshort = 0
    /\ rout = <<>>
    /\ rinfo = NoInfo
    /\ mstream = <<>>
    /\ mnext = 1
    /\ mpc = "closed"
    /\ merr = NoErr
    /\ mexp = NoExpect
    /\ mcur = NoFrame
    /\ mcursor = 0
    /\ mout = <<>>
    /\ mvals = <<>>
    /\ fhead = "ok"
    /\ fsinfo = IdleStreamInfo
    /\ fdec = NoFields
    /\ fbits = 16
    /\ fstream = <<>>
    /\ fnext = 1
    /\ fpc = "closed"
    /\ ferr = NoErr
    /\ cur_block = <<>>
    /\ cur_block_len = 0
    /\ block_cursor = 0
    /\ max_sample_value = ToF32(0)
    /\ fout = <<>>
    /\ fvals = <<>>
    /\ vhead = "ok"
    /\ vident = IdleStreamInfo
    /\ vdec = NoFields
    /\ vstream = <<>>
    /\ vnext = 1
    /\ vpc = "closed"
    /\ verr = NoErr
    /\ cur_packet = NoPacket
    /\ packet_cursor = 0
    /\ vout = <<>>
    /\ cspec = IdleRawSpec
    /\ cbytes = <<>>
    /\ cpos = 0
    /\ cout = <<>>
    /\ cvals = <<>>
    /\ whead = "ok"
    /\ whdr = IdleWavSpec
    /\ wspec = NoWavSpec
    /\ wstream = <<>>
    /\ wnext = 1
    /\ wpc = "closed"
    /\ werr = NoErr
    /\ wout = <<>>
    /\ wvals = <<>>
    /\ variant = "Raw"
    /\ infos = <<>>

NextDispatch ==
    \/ SniffBegin
    \/ SniffTrial
    \/ SniffDispatch
    \/ \E name \in Paths : Open(name)

SpecDispatch == InitDispatch /\ [][NextDispatch]_vars

\* The raw decoder: any RawAudioSpec, any file length.
InitRaw ==
    /\ features = Features
    /\ accepts = {}
    /\ pos = 0
    /\ faults = 0
    /\ pc = "idle"
    /\ idx = 1
    /\ found = ""
    /\ trials = <<>>
    /\ commit = NoCommit
    /\ path = <<>>
    /\ fileOpened = FALSE
    /\ result = NoResult
    /\ rspec \in RawAudioSpecs
    /\ rlen \in 0..MaxRawLen
    /\ rpos = 0
    /\ rpc = "closed"
    /\ rerr = NoErr
    /\ rfaults = 0
    /\ rshort = 0
    /\ rout = <<>>
    /\ rinfo = NoInfo
    /\ mstream = <<>>
    /\ mnext = 1
    /\ mpc = "closed"
    /\ merr = NoErr
    /\ mexp = NoExpect
    /\ mcur = NoFrame
    /\ mcursor = 0
    /\ mout = <<>>
    /\ mvals = <<>>
    /\ fhead = "ok"
    /\ fsinfo = IdleStreamInfo
    /\ fdec = NoFields
    /\ fbits = 16
    /\ fstream = <<>>
    /\ fnext = 1
    /\ fpc = "closed"
    /\ ferr = NoErr
    /\ cur_block = <<>>
    /\ cur_block_len = 0
    /\ block_cursor = 0
    /\ max_sample_value = ToF32(0)
    /\ fout = <<>>
    /\ fvals = <<>>
    /\ vhead = "ok"
    /\ vident = IdleStreamInfo
    /\ vdec = NoFields
    /\ vstream = <<>>
    /\ vnext = 1
    /\ vpc = "closed"
    /\ verr = NoErr
    /\ cur_packet = NoPacket
    /\ packet_cursor = 0
    /\ vout = <<>>
    /\ cspec = IdleRawSpec
    /\ cbytes = <<>>
    /\ cpos = 0
    /\ cout = <<>>
    /\ cvals = <<>>
    /\ whead = "ok"
    /\ whdr = IdleWavSpec
    /\ wspec = NoWavSpec
    /\ wstream = <<>>
    /\ wnext = 1
    /\ wpc = "closed"
    /\ werr = NoErr
    /\ wout = <<>>
    /\ wvals = <<>>
    /\ variant = "Raw"
    /\ infos = <<>>

NextRaw ==
    \/ OpenRaw
    \/ RawIntoSamples
    \/ RawNext

SpecRaw == InitRaw /\ [][NextRaw]_vars

\* The MP3 adapter: any sequence of frame decoder results.
InitMp3 ==
    /\ features = Features
    /\ accepts = {}
    /\ pos = 0
    /\ faults = 0
    /\ pc = "idle"
    /\ idx = 1
    /\ found = ""
    /\ trials = <<>>
    /\ commit = NoCommit
    /\ path = <<>>
    /\ fileOpened = FALSE
    /\ result = NoResult
    /\ rspec = IdleRawSpec
    /\ rlen = 0
    /\ rpos = 0
    /\ rpc = "closed"
    /\ rerr = NoErr
    /\ rfaults = 0
    /\ rshort = 0
    /\ rout = <<>>
    /\ rinfo = NoInfo
    /\ mstream \in Mp3Streams
    /\ mnext = 1
    /\ mpc = "closed"
    /\ merr = NoErr
    /\ mexp = NoExpect
    /\ mcur = NoFrame
    /\ mcursor = 0
    /\ mout = <<>>
    /\ mvals = <<>>
    /\ fhead = "ok"
    /\ fsinfo = IdleStreamInfo
    /\ fdec = NoFields
    /\ fbits = 16
    /\ fstream = <<>>
    /\ fnext = 1
    /\ fpc = "closed"
    /\ ferr = NoErr
    /\ cur_block = <<>>
    /\ cur_block_len = 0
    /\ block_cursor = 0
    /\ max_sample_value = ToF32(0)
    /\ fout = <<>>
    /\ fvals = <<>>
    /\ vhead = "ok"
    /\ vident = IdleStreamInfo
    /\ vdec = NoFields
    /\ vstream = <<>>
    /\ vnext = 1
    /\ vpc = "closed"
    /\ verr = NoErr
    /\ cur_packet = NoPacket
    /\ packet_cursor = 0
    /\ vout = <<>>
    /\ cspec = IdleRawSpec
    /\ cbytes = <<>>
    /\ cpos = 0
    /\ cout = <<>>
    /\ cvals = <<>>
    /\ whead = "ok"
    /\ whdr = IdleWavSpec
    /\ wspec = NoWavSpec
    /\ wstream = <<>>
    /\ wnext = 1
    /\ wpc = "closed"
    /\ werr = NoErr
    /\ wout = <<>>
    /\ wvals = <<>>
    /\ variant = "Mp3"
    /\ infos = <<>>

NextMp3 ==
    \/ Mp3FromReader
    \/ Mp3IntoSamples
    \/ Mp3Next

SpecMp3 == InitMp3 /\ [][NextMp3]_vars

\* The FLAC adapter: any header outcome, any sequence of block decoder results.
InitFlac ==
    /\ features = Features
    /\ accepts = {}
    /\ pos = 0
    /\ faults = 0
    /\ pc = "idle"
    /\ idx = 1
    /\ found = ""
    /\ trials = <<>>
    /\ commit = NoCommit
    /\ path = <<>>
    /\ fileOpened = FALSE
    /\ result = NoResult
    /\ rspec = IdleRawSpec
    /\ rlen = 0
    /\ rpos = 0
    /\ rpc = "closed"
    /\ rerr = NoErr
    /\ rfaults = 0
    /\ rshort = 0
    /\ rout = <<>>
    /\ rinfo = NoInfo
    /\ mstream = <<>>
    /\ mnext = 1
    /\ mpc = "closed"
    /\ merr = NoErr
    /\ mexp = NoExpect
    /\ mcur = NoFrame
    /\ mcursor = 0
    /\ mout = <<>>
    /\ mvals = <<>>
    /\ fhead \in FlacHeads
    /\ fsinfo = IdleStreamInfo
    /\ fdec = NoFields
    /\ fbits \in FlacBits
    /\ fstream \in FlacStreams(fbits)
    /\ fnext = 1
    /\ fpc = "closed"
    /\ ferr = NoErr
    /\ cur_block = <<>>
    /\ cur_block_len = 0
    /\ block_cursor = 0
    /\ max_sample_value = ToF32(0)
    /\ fout = <<>>
    /\ fvals = <<>>
    /\ vhead = "ok"
    /\ vident = IdleStreamInfo
    /\ vdec = NoFields
    /\ vstream = <<>>
    /\ vnext = 1
    /\ vpc = "closed"
    /\ verr = NoErr
    /\ cur_packet = NoPacket
    /\ packet_cursor = 0
    /\ vout = <<>>
    /\ cspec = IdleRawSpec
    /\ cbytes = <<>>
    /\ cpos = 0
    /\ cout = <<>>
    /\ cvals = <<>>
    /\ whead = "ok"
    /\ whdr = IdleWavSpec
    /\ wspec = NoWavSpec
    /\ wstream = <<>>
    /\ wnext = 1
    /\ wpc = "closed"
    /\ werr = NoErr
    /\ wout = <<>>
    /\ wvals = <<>>
    /\ variant = "Flac"
    /\ infos = <<>>

NextFlac ==
    \/ FlacFromReader
    \/ FlacIntoSamples
    \/ FlacNext

SpecFlac == InitFlac /\ [][NextFlac]_vars

\* The Vorbis adapter: any header outcome, any sequence of packet decoder
\* results.
InitVorbis ==
    /\ features = Features
    /\ accepts = {}
    /\ pos = 0
    /\ faults = 0
    /\ pc = "idle"
    /\ idx = 1
    /\ found = ""
    /\ trials = <<>>
    /\ commit = NoCommit
    /\ path = <<>>
    /\ fileOpened = FALSE
    /\ result = NoResult
    /\ rspec = IdleRawSpec
    /\ rlen = 0
    /\ rpos = 0
    /\ rpc = "closed"
    /\ rerr = NoErr
    /\ rfaults = 0
    /\ rshort = 0
    /\ rout = <<>>
    /\ rinfo = NoInfo
    /\ mstream = <<>>
    /\ mnext = 1
    /\ mpc = "closed"
    /\ merr = NoErr
    /\ mexp = NoExpect
    /\ mcur = NoFrame
    /\ mcursor = 0
    /\ mout = <<>>
    /\ mvals = <<>>
    /\ fhead = "ok"
    /\ fsinfo = IdleStreamInfo
    /\ fdec = NoFields
    /\ fbits = 16
    /\ fstream = <<>>
    /\ fnext = 1
    /\ fpc = "closed"
    /\ ferr = NoErr
    /\ cur_block = <<>>
    /\ cur_block_len = 0
    /\ block_cursor = 0
    /\ max_sample_value = ToF32(0)
    /\ fout = <<>>
    /\ fvals = <<>>
    /\ vhead \in VorbisHeads
    /\ vident = IdleStreamInfo
    /\ vdec = NoFields
    /\ vstream \in VorbisStreams
    /\ vnext = 1
    /\ vpc = "closed"
    /\ verr = NoErr
    /\ cur_packet = NoPacket
    /\ packet_cursor = 0
    /\ vout = <<>>
    /\ cspec = IdleRawSpec
    /\ cbytes = <<>>
    /\ cpos = 0
    /\ cout = <<>>
    /\ cvals = <<>>
    /\ whead = "ok"
    /\ whdr = IdleWavSpec
    /\ wspec = NoWavSpec
    /\ wstream = <<>>
    /\ wnext = 1
    /\ wpc = "closed"
    /\ werr = NoErr
    /\ wout = <<>>
    /\ wvals = <<>>
    /\ variant = "Vorbis"
    /\ infos = <<>>

NextVorbis ==
    \/ VorbisFromReader
    \/ VorbisIntoSamples
    \/ OggNext

SpecVorbis == InitVorbis /\ [][NextVorbis]_vars

\* The raw sample codec: any integer format of 8, 16 or 24 bits, either
\* endianness, any source made of whole samples.
InitCodec ==
    /\ features = Features
    /\ accepts = {}
    /\ pos = 0
    /\ faults = 0
    /\ pc = "idle"
    /\ idx = 1
    /\ found = ""
    /\ trials = <<>>
    /\ commit = NoCommit
    /\ path = <<>>
    /\ fileOpened = FALSE
    /\ result = NoResult
    /\ rspec = IdleRawSpec
    /\ rlen = 0
    /\ rpos = 0
    /\ rpc = "closed"
    /\ rerr = NoErr
    /\ rfaults = 0
    /\ rshort = 0
    /\ rout = <<>>
    /\ rinfo = NoInfo
    /\ mstream = <<>>
    /\ mnext = 1
    /\ mpc = "closed"
    /\ merr = NoErr
    /\ mexp = NoExpect
    /\ mcur = NoFrame
    /\ mcursor = 0
    /\ mout = <<>>
    /\ mvals = <<>>
    /\ fhead = "ok"
    /\ fsinfo = IdleStreamInfo
    /\ fdec = NoFields
    /\ fbits = 16
    /\ fstream = <<>>
    /\ fnext = 1
    /\ fpc = "closed"
    /\ ferr = NoErr
    /\ cur_block = <<>>
    /\ cur_block_len = 0
    /\ block_cursor = 0
    /\ max_sample_value = ToF32(0)
    /\ fout = <<>>
    /\ fvals = <<>>
    /\ vhead = "ok"
    /\ vident = IdleStreamInfo
    /\ vdec = NoFields
    /\ vstream = <<>>
    /\ vnext = 1
    /\ vpc = "closed"
    /\ verr = NoErr
    /\ cur_packet = NoPacket
    /\ packet_cursor = 0
    /\ vout = <<>>
    /\ cspec \in CodecSpecs
    /\ cbytes \in CodecSources(SizeBytes(cspec.sample_format))
    /\ cpos = 0
    /\ cout = <<>>
    /\ cvals = <<>>
    /\ whead = "ok"
    /\ whdr = IdleWavSpec
    /\ wspec = NoWavSpec
    /\ wstream = <<>>
    /\ wnext = 1
    /\ wpc = "closed"
    /\ werr = NoErr
    /\ wout = <<>>
    /\ wvals = <<>>
    /\ variant = "Raw"
    /\ infos = <<>>

NextCodec ==
    \/ CodecNext

SpecCodec == InitCodec /\ [][NextCodec]_vars

\* The WAV adapter: any header outcome, any declared format, any sequence of
\* sample results.
InitWav ==
    /\ features = Features
    /\ accepts = {}
    /\ pos = 0
    /\ faults = 0
    /\ pc = "idle"
    /\ idx = 1
    /\ found = ""
    /\ trials = <<>>
    /\ commit = NoCommit
    /\ path = <<>>
    /\ fileOpened = FALSE
    /\ result = NoResult
    /\ rspec = IdleRawSpec
    /\ rlen = 0
    /\ rpos = 0
    /\ rpc = "closed"
    /\ rerr = NoErr
    /\ rfaults = 0
    /\ rshort = 0
    /\ rout = <<>>
    /\ rinfo = NoInfo
    /\ mstream = <<>>
    /\ mnext = 1
    /\ mpc = "closed"
    /\ merr = NoErr
    /\ mexp = NoExpect
    /\ mcur = NoFrame
    /\ mcursor = 0
    /\ mout = <<>>
    /\ mvals = <<>>
    /\ fhead = "ok"
    /\ fsinfo = IdleStreamInfo
    /\ fdec = NoFields
    /\ fbits = 16
    /\ fstream = <<>>
    /\ fnext = 1
    /\ fpc = "closed"
    /\ ferr = NoErr
    /\ cur_block = <<>>
    /\ cur_block_len = 0
    /\ block_cursor = 0
    /\ max_sample_value = ToF32(0)
    /\ fout = <<>>
    /\ fvals = <<>>
    /\ vhead = "ok"
    /\ vident = IdleStreamInfo
    /\ vdec = NoFields
    /\ vstream = <<>>
    /\ vnext = 1
    /\ vpc = "closed"
    /\ verr = NoErr
    /\ cur_packet = NoPacket
    /\ packet_cursor = 0
    /\ vout = <<>>
    /\ cspec = IdleRawSpec
    /\ cbytes = <<>>
    /\ cpos = 0
    /\ cout = <<>>
    /\ cvals = <<>>
    /\ whead \in WavHeads
    /\ whdr \in WavSpecs
    /\ wspec = NoWavSpec
    /\ wstream \in WavStreams(whdr)
    /\ wnext = 1
    /\ wpc = "closed"
    /\ werr = NoErr
    /\ wout = <<>>
    /\ wvals = <<>>
    /\ variant = "Wav"
    /\ infos = <<>>

NextWav ==
    \/ WavFromReader
    \/ WavIntoSamples
    \/ WavNext

SpecWav == InitWav /\ [][NextWav]_vars

\* Opening a decoder of any variant, asking for its info, and turning it into
\* its sample sequence.
InfoRawSpecs ==
    [sample_rate : Rates, channels : RawChannels, sample_format : {"Unsigned8", "Signed16"},
     endianness : {"Little"}, start_offset : RawOffsets, max_frames : {NoMaxFrames}]
InfoMp3Streams == UNION {[1..n -> Mp3Units] : n \in 0..2}
InfoVorbisStreams == UNION {[1..n -> VorbisUnits] : n \in 0..1}
InfoWavSpecs ==
    [bits_per_sample : {16, 64}, sample_format : {"Int"},
     sample_rate : {44100, 48000}, channels : {1, 2}]

InitInfo ==
    /\ variant \in Variants
    /\ features = Features
    /\ accepts = {}
    /\ pos = 0
    /\ faults = 0
    /\ pc = "idle"
    /\ idx = 1
    /\ found = ""
    /\ trials = <<>>
    /\ commit = NoCommit
    /\ path = <<>>
    /\ fileOpened = FALSE
    /\ result = NoResult
    /\ rspec \in IF variant = "Raw" THEN InfoRawSpecs ELSE {IdleRawSpec}
    /\ rlen = 0
    /\ rpos = 0
    /\ rpc = "closed"
    /\ rerr = NoErr
    /\ rfaults = 0
    /\ rshort = 0
    /\ rout = <<>>
    /\ rinfo = NoInfo
    /\ mstream \in IF variant = "Mp3" THEN InfoMp3Streams ELSE {<<>>}
    /\ mnext = 1
    /\ mpc = "closed"
    /\ merr = NoErr
    /\ mexp = NoExpect
    /\ mcur = NoFrame
    /\ mcursor = 0
    /\ mout = <<>>
    /\ mvals = <<>>
    /\ fhead \in IF variant = "Flac" THEN FlacHeads ELSE {"ok"}
    /\ fsinfo \in IF variant = "Flac" THEN StreamInfos ELSE {IdleStreamInfo}
    /\ fdec = NoFields
    /\ fbits = 16
    /\ fstream = <<>>
    /\ fnext = 1
    /\ fpc = "closed"
    /\ ferr = NoErr
    /\ cur_block = <<>>
    /\ cur_block_len = 0
    /\ block_cursor = 0
    /\ max_sample_value = ToF32(0)
    /\ fout = <<>>
    /\ fvals = <<>>
    /\ vhead \in IF variant = "Vorbis" THEN VorbisHeads ELSE {"ok"}
    /\ vident \in IF variant = "Vorbis" THEN StreamInfos ELSE {IdleStreamInfo}
    /\ vdec = NoFields
    /\ vstream \in IF variant = "Vorbis" THEN InfoVorbisStreams ELSE {<<>>}
    /\ vnext = 1
    /\ vpc = "closed"
    /\ verr = NoErr
    /\ cur_packet = NoPacket
    /\ packet_cursor = 0
    /\ vout = <<>>
    /\ cspec = IdleRawSpec
    /\ cbytes = <<>>
    /\ cpos = 0
    /\ cout = <<>>
    /\ cvals = <<>>
    /\ whead \in IF variant = "Wav" THEN WavHeads ELSE {"ok"}
    /\ whdr \in IF variant = "Wav" THEN InfoWavSpecs ELSE {IdleWavSpec}
    /\ wspec = NoWavSpec
    /\ wstream = <<>>
    /\ wnext = 1
    /\ wpc = "closed"
    /\ werr = NoErr
    /\ wout = <<>>
    /\ wvals = <<>>
    /\ infos = <<>>

NextInfo ==
    \/ OpenRaw
    \/ RawIntoSamples
    \/ WavFromReader
    \/ WavIntoSamples
    \/ VorbisFromReader
    \/ VorbisIntoSamples
    \/ Mp3FromReader
    \/ Mp3IntoSamples
    \/ FlacFromReader
    \/ FlacIntoSamples
    \/ Info

SpecInfo == InitInfo /\ [][NextInfo]_vars

\* Pulling from the sample sequence of an MP3, Vorbis or FLAC decoder by a
\* caller that keeps pulling: every step that can be taken is taken.
InitPull ==
    /\ variant \in {"Mp3", "Vorbis", "Flac"}
    /\ features = Features
    /\ accepts = {}
    /\ pos = 0
    /\ faults = 0
    /\ pc = "idle"
    /\ idx = 1
    /\ found = ""
    /\ trials = <<>>
    /\ commit = NoCommit
    /\ path = <<>>
    /\ fileOpened = FALSE
    /\ result = NoResult
    /\ rspec = IdleRawSpec
    /\ rlen = 0
    /\ rpos = 0
    /\ rpc = "closed"
    /\ rerr = NoErr
    /\ rfaults = 0
    /\ rshort = 0
    /\ rout = <<>>
    /\ rinfo = NoInfo
    /\ mstream \in IF variant = "Mp3" THEN Mp3Streams ELSE {<<>>}
    /\ mnext = 1
    /\ mpc = "closed"
    /\ merr = NoErr
    /\ mexp = NoExpect
    /\ mcur = NoFrame
    /\ mcursor = 0
    /\ mout = <<>>
    /\ mvals = <<>>
    /\ fhead = "ok"
    /\ fsinfo = IdleStreamInfo
    /\ fdec = NoFields
    /\ fbits \in IF variant = "Flac" THEN FlacBits ELSE {16}
    /\ fstream \in IF variant = "Flac" THEN FlacStreams(fbits) ELSE {<<>>}
    /\ fnext = 1
    /\ fpc = "closed"
    /\ ferr = NoErr
    /\ cur_block = <<>>
    /\ cur_block_len = 0
    /\ block_cursor = 0
    /\ max_sample_value = ToF32(0)
    /\ fout = <<>>
    /\ fvals = <<>>
    /\ vhead = "ok"
    /\ vident = IdleStreamInfo
    /\ vdec = NoFields
    /\ vstream \in IF variant = "Vorbis" THEN VorbisStreams ELSE {<<>>}
    /\ vnext = 1
    /\ vpc = "closed"
    /\ verr = NoErr
    /\ cur_packet = NoPacket
    /\ packet_cursor = 0
    /\ vout = <<>>
    /\ cspec = IdleRawSpec
    /\ cbytes = <<>>
    /\ cpos = 0
    /\ cout = <<>>
    /\ cvals = <<>>
    /\ whead = "ok"
    /\ whdr = IdleWavSpec
    /\ wspec = NoWavSpec
    /\ wstream = <<>>
    /\ wnext = 1
    /\ wpc = "closed"
    /\ werr = NoErr
    /\ wout = <<>>
    /\ wvals = <<>>
    /\ infos = <<>>

NextPull ==
    \/ Mp3FromReader
    \/ Mp3IntoSamples
    \/ Mp3Next
    \/ VorbisFromReader
    \/ VorbisIntoSamples
    \/ OggNext
    \/ FlacFromReader
    \/ FlacIntoSamples
    \/ FlacNext

SpecPull == InitPull /\ [][NextPull]_vars /\ WF_vars(NextPull)

(***************************************************************************)
(* Claims about the dispatch facade.                                       *)
(***************************************************************************)
\* from_reader has returned.
Sniffed == pc = "done" /\ Len(trials) > 0
\* open has returned.
Opened == pc = "done" /\ Len(path) > 0

\* The trial parse of trials[i] failed with an error other than FormatError.
FatalTrial(i) ==
    /\ trials[i].parsed
    /\ trials[i].cause = "parse"
    /\ trials[i].ret = "err"

\* C2: a trial parse that fails with an error other than FormatError ends
\* content sniffing: it is the last trial made, and from_reader returns that
\* error and no decoder.
C2_FatalErrorAbortsSniffing ==
    \A i \in 1..Len(trials) :
        FatalTrial(i) =>
            /\ \A j \in (i + 1)..Len(trials) : ~trials[j].parsed
            /\ pc = "done" => result = ErrResult(trials[i].err)

\* C3: every trial parse starts at byte 0 and leaves the source at byte 0
\* after its reset, whatever its outcome, and the committed parse starts at
\* byte 0 (runs in which the reset itself fails set aside).
C3_EveryTrialStartsAndEndsAtZero ==
    (\A j \in 1..Len(trials) : trials[j].cause # "seek") =>
        /\ \A i \in 1..Len(trials) :
              trials[i].parsed => trials[i].start = 0 /\ trials[i].end = 0
        /\ (Len(trials) > 0 /\ commit.made) => commit.start = 0

C4Order == <<"Flac", "Mp3", "Vorbis", "Wav">>

\* C4: the backends are trial-parsed in the order Flac, Mp3, Vorbis, Wav; no
\* backend is trial-parsed after one whose trial parse succeeded; a decoder
\* returned is of the earliest backend whose trial parse succeeded.
C4_CommitsToEarliestSuccess ==
    /\ \A i \in 1..Len(trials) : trials[i].format = C4Order[i]
    /\ \A i \in 1..Len(trials) :
          trials[i].parseRes = "Ok" => \A j \in (i + 1)..Len(trials) : ~trials[j].parsed
    /\ (Sniffed /\ result.tag = "ok") =>
          \E i \in 1..Len(trials) :
              /\ trials[i].parseRes = "Ok"
              /\ result.format = trials[i].format
              /\ \A j \in 1..(i - 1) : trials[j].parseRes # "Ok"

\* Every backend compiled in was trial-parsed and rejected the source with
\* FormatError.
AllRejected ==
    /\ Len(trials) = Len(TrialOrder)
    /\ \A i \in 1..Len(trials) :
          trials[i].parsed => trials[i].parseRes = "FormatError"

\* C5: when every compiled-in backend rejects the source with FormatError,
\* from_reader returns UnsupportedExtension and no decoder.
C5_NoMatchIsUnsupported ==
    (Sniffed /\ AllRejected) =>
        /\ result.tag = "err"
        /\ result.err.kind = "UnsupportedExtension"
        /\ ~commit.made

C5_Witness ==
    /\ Sniffed
    /\ AllRejected
    /\ features = Features
    /\ \A i \in 1..Len(trials) : trials[i].parsed
    /\ result.err.kind = "UnsupportedExtension"

\* What open returns for a .wav file holding the same bytes, when the file
\* opens and no read fails.
OpenWavResults ==
    {o.res : o \in {x \in OpenOutcomes(<<"song", "wav">>, features, accepts, FALSE) :
                       x.end > 0 \/ x.res.tag = "ok"}}

\* C6: sniffing a source that the WAV parser accepts, with the wav backend
\* compiled in and no I/O failure, returns a Wav decoder, the same decoder
\* (format and bytes parsed) that open returns for the .wav file.
C6_SniffedWavEqualsOpenedWav ==
    (Sniffed /\ faults = 0 /\ "Wav" \in accepts /\ "wav" \in features) =>
        /\ result.tag = "ok"
        /\ result.format = "Wav"
        /\ result \in OpenWavResults

C7Backend(e) ==
    CASE e = "wav" -> "Wav"
      [] e = "ogg" -> "Vorbis"
      [] e = "mp3" -> "Mp3"
      [] e = "flac" -> "Flac"

C9Feature(e) ==
    CASE e = "wav" -> "wav"
      [] e = "ogg" -> "vorbis"
      [] e = "mp3" -> "mp3"
      [] e = "flac" -> "flac"

Recognized == {"wav", "ogg", "mp3", "flac"}

\* C7: open on a path whose extension is wav, ogg, mp3 or flac, with that
\* backend compiled in, opens the file with the Wav, Vorbis, Mp3 or Flac
\* backend respectively, whatever the bytes are; a decoder returned has that
\* format, and a failure is the backend's own (IOError or FormatError).
C7_ExtensionSelectsBackend ==
    \A e \in Recognized :
        (Opened /\ PathExtension(path) = Some(e) /\ C9Feature(e) \in features) =>
            /\ fileOpened
            /\ commit = [made |-> TRUE, format |-> C7Backend(e), start |-> 0]
            /\ result.tag = "ok" => result.format = C7Backend(e)
            /\ result.tag = "err" => result.err.kind \in {"IOError", "FormatError"}

C7_Witness ==
    /\ Opened
    /\ PathExtension(path) = Some("ogg")
    /\ accepts = {"Mp3", "Wav"}
    /\ features = Features
    /\ fileOpened
    /\ commit.format = "Vorbis"
    /\ result.tag = "err"

\* C8: open on a path whose extension is not wav, ogg, mp3 or flac returns
\* UnsupportedExtension carrying that extension, and open on a path without
\* an extension returns NoExtension.
C8_UnknownExtensionIsUnsupported ==
    Opened =>
        LET os == OsExtension(path) IN
        /\ (os.some /\ os.val \notin Recognized) =>
              result = ErrResult(UnsupportedExtension(os.val))
        /\ ~os.some => result = ErrResult(NoExtension)

\* C9: open on a recognized extension whose feature is compiled out returns
\* DisabledExtension naming that extension and that feature, whatever the
\* other features are, and does not touch the file.
C9_DisabledExtension ==
    \A e \in Recognized :
        (Opened /\ PathExtension(path) = Some(e) /\ C9Feature(e) \notin features) =>
            /\ result = ErrResult(DisabledExtension(e, C9Feature(e)))
            /\ ~fileOpened

C9_Witness ==
    /\ Opened
    /\ PathExtension(path) = Some("ogg")
    /\ features = Features \ {"vorbis"}
    /\ result = ErrResult(DisabledExtension("ogg", "vorbis"))

\* The extension of p is absent, is not one open recognizes, or names a
\* backend that is compiled out.
NotDispatchable(p, feats) ==
    LET os == OsExtension(p) IN
    \/ ~os.some
    \/ os.val \notin Recognized
    \/ C9Feature(os.val) \notin feats

ExtensionErrors == {"NoExtension", "UnsupportedExtension", "DisabledExtension"}

\* C31: open on a path whose extension is absent, unrecognized or compiled
\* out returns NoExtension, UnsupportedExtension or DisabledExtension and
\* has not opened or read the file: no backend was committed, the file
\* position is untouched and no I/O failure was met, so the outcome is never
\* the IOError of a missing file.  Conversely an extension error is only
\* ever returned without the file having been opened.
C31_ExtensionErrorsBeforeFileAccess ==
    Opened =>
        /\ NotDispatchable(path, features) =>
              /\ result.tag = "err"
              /\ result.err.kind \in ExtensionErrors
        /\ (result.tag = "err" /\ result.err.kind \in ExtensionErrors) =>
              /\ ~fileOpened
              /\ commit = NoCommit
              /\ pos = 0
              /\ faults = 0

C31_Witness ==
    /\ Opened
    /\ PathExtension(path) = Some("xyz")
    /\ result = ErrResult(UnsupportedExtension("xyz"))
    /\ ~fileOpened
    /\ accepts = {}

\* C33: from_reader never identifies a compiled-out backend and never Raw:
\* a decoder it returns has one of the formats Flac, Mp3, Vorbis, Wav and
\* that format's feature is compiled in, and an error it returns is neither
\* DisabledExtension nor NoExtension.
C33_SniffingYieldsCompiledInBackend ==
    Sniffed =>
        /\ result.tag \in {"ok", "err"}
        /\ result.tag = "ok" =>
              /\ result.format \in Backends
              /\ FeatureOf(result.format) \in features
        /\ result.tag = "err" =>
              result.err.kind \notin {"DisabledExtension", "NoExtension"}

C33_Witness ==
    /\ Sniffed
    /\ features = Features \ {"flac", "mp3"}
    /\ Len(trials) >= 3
    /\ ~trials[1].parsed
    /\ ~trials[2].parsed
    /\ result.tag = "ok"
    /\ result.format = "Vorbis"

(***************************************************************************)
(* Claims about the raw decoder.                                           *)
(***************************************************************************)
SampleCount(out) == Cardinality({i \in 1..Len(out) : out[i].kind = "sample"})

\* C1: with max_frames = k (k >= 1) and channels = c the raw sample sequence
\* emits at most k*c samples, however many bytes the source still holds.
C1_MaxFramesEndsSequence ==
    (rpc = "iter" /\ rspec.max_frames.some /\ rspec.max_frames.val >= 1) =>
        SampleCount(rout) <= rspec.max_frames.val * rspec.channels

\* The bytes left in the file when the pull that returned item it began.
AvailAt(it) == IF rlen > it.at THEN rlen - it.at ELSE 0

Formats24 == {"Unsigned24", "Signed24"}

\* C15: for the formats read into a buffer of the sample's width, a pull
\* whose read does not fail yields IncompleteData exactly when more than
\* zero but fewer than the sample's width bytes remain, and ends the
\* sequence when zero bytes remain; a failed read yields IOError.
C15_IncompleteDataIffPartialSample ==
    (rpc = "iter" /\ rspec.sample_format \notin Formats24) =>
        \A i \in 1..Len(rout) :
            LET it == rout[i]
                w == SizeBytes(rspec.sample_format)
            IN  \/ it = ErrItem(it.at, IOError)
                \/ /\ (it = ErrItem(it.at, IncompleteData))
                          <=> (0 < AvailAt(it) /\ AvailAt(it) < w)
                   /\ AvailAt(it) = 0 => it.kind = "end"

\* C16: on a zero-length source opening fails only on an I/O failure, and
\* without one the first pull returns end-of-stream, whatever the spec.
C16_ZeroLengthSourceIsEmpty ==
    rlen = 0 =>
        /\ rpc = "failed" => rerr = IOError
        /\ (rpc = "iter" /\ rfaults = 0 /\ Len(rout) >= 1) =>
              rout = <<EndItem(rspec.start_offset)>>

C16_Witness ==
    /\ rlen = 0
    /\ rspec.sample_format = "Signed24"
    /\ rspec.start_offset = 1
    /\ rpc = "iter"
    /\ rfaults = 0
    /\ rout = <<EndItem(1)>>

\* C17: for Unsigned24 and Signed24, a pull made with at least 3 bytes left
\* (and no failed or short read) yields a sample decoded from exactly 3 bytes.
C17_24BitPullConsumesThreeBytes ==
    (rpc = "iter" /\ rspec.sample_format \in Formats24
        /\ rfaults = 0 /\ rshort = 0) =>
        \A i \in 1..Len(rout) :
            AvailAt(rout[i]) >= 3 =>
                (rout[i].kind = "sample" /\ rout[i].n = 3)

C21_RawNewSeeksToStartOffset ==
    /\ rpc = "open" => rpos = rspec.start_offset
    /\ (rpc = "iter" /\ Len(rout) >= 1) => rout[1].at = rspec.start_offset
    /\ rpc = "failed" => (rerr = IOError /\ rout = <<>>)

C21_Witness ==
    /\ rpc = "iter"
    /\ rspec.start_offset = 1
    /\ rspec.sample_format = "Unsigned8"
    /\ Len(rout) >= 1
    /\ rout[1] = SampleItem(1, 1, 0)

(***************************************************************************)
(* Claims about the MP3 adapter.                                           *)
(***************************************************************************)
\* The index in mstream of the frame from_reader took as the first frame.
FirstFrameIdx ==
    CHOOSE i \in 1..Len(mstream) :
        /\ mstream[i].kind = "frame"
        /\ \A j \in 1..(i - 1) : mstream[j].kind # "frame"

\* mstream[u] is a non-empty frame after the first whose sample rate or
\* channel count differs from the first frame's.
MismatchedFrame(u) ==
    /\ u > FirstFrameIdx
    /\ mstream[u].kind = "frame"
    /\ Len(mstream[u].data) > 0
    /\ \/ mstream[u].rate # mstream[FirstFrameIdx].rate
       \/ mstream[u].channels # mstream[FirstFrameIdx].channels

\* C10: once the iterator has read a non-empty frame whose sample rate or
\* channel count differs from the first frame's, the pull that read it has
\* returned a FormatError item, and no sample of that frame is ever returned.
C10_MismatchedFrameIsFormatError ==
    mpc = "iter" =>
        \A u \in 1..Len(mstream) :
            MismatchedFrame(u) =>
                /\ \A k \in 1..Len(mout) :
                      ~(mout[k].kind = "sample" /\ mout[k].at = u)
                /\ mnext > u =>
                      \E k \in 1..Len(mout) : mout[k] = ErrItem(u, FormatError)

C10_Witness ==
    /\ mpc = "iter"
    /\ \E u \in 1..Len(mstream) :
          /\ MismatchedFrame(u)
          /\ mstream[u].rate = mstream[FirstFrameIdx].rate
          /\ mnext > u
          /\ \E k \in 2..Len(mout) :
                /\ mout[k] = ErrItem(u, FormatError)
                /\ mout[k - 1].kind = "sample"

\* C11: once a pull on the MP3 sample sequence has returned end-of-stream,
\* no later pull returns a sample.
C11_Mp3EndOfStreamIsFinal ==
    \A i \in 1..Len(mout) :
        mout[i].kind = "end" =>
            \A j \in (i + 1)..Len(mout) : mout[j].kind # "sample"

\* C13: once a pull on the MP3 sample sequence has returned an error item, no
\* later pull returns a sample (frame, place) that was already returned
\* before the error.
C13_Mp3NoReplayAfterError ==
    \A j \in 1..Len(mout) :
        mout[j].kind = "err" =>
            \A i \in 1..(j - 1) : \A k \in (j + 1)..Len(mout) :
                ~(/\ mout[i].kind = "sample"
                  /\ mout[k].kind = "sample"
                  /\ mout[i].at = mout[k].at
                  /\ mout[i].n = mout[k].n)

\* The results of next_frame that from_reader does not skip.
Mp3Decisive == {i \in 1..Len(mstream) : mstream[i].kind # "skip"}
Mp3FirstDecisive == CHOOSE i \in Mp3Decisive : \A j \in Mp3Decisive : i <= j

\* C30: opening an MP3 source fails with FormatError when the frame decoder
\* reports end-of-stream before any frame or insufficient data, and
\* try_decode then answers false; it fails with IOError only when the frame
\* decoder reports an I/O failure.
C30_Mp3OpenFailureKinds ==
    mpc = "failed" =>
        /\ merr \in {FormatError, IOError}
        /\ merr = IOError <=>
              (Mp3Decisive # {} /\ mstream[Mp3FirstDecisive].kind = "io")
        /\ merr = FormatError =>
              BackendTryDecode([ok |-> FALSE, err |-> merr, io |-> FALSE, end |-> 0])
                  = [tag |-> "ok", val |-> FALSE, err |-> NoErr]

C30_Witness ==
    /\ mpc = "failed"
    /\ merr = FormatError
    /\ Len(mstream) = 2
    /\ mstream[1].kind = "skip"
    /\ mstream[2].kind = "insufficient"

\* C34: mp3_err_to_decoder_err is reached only with an I/O or an
\* insufficient-data error: neither opening nor pulling ever panics in its
\* unimplemented!() arm, every error item of the sequence is IOError or
\* FormatError, and none stems from a skipped-data or end-of-stream result.
C34_Mp3ConverterNeverUnimplemented ==
    /\ mpc # "panicked"
    /\ merr # Unimplemented
    /\ mpc = "failed" =>
          \/ Mp3Decisive = {}
          \/ mstream[Mp3FirstDecisive].kind \in {"io", "insufficient"}
    /\ \A i \in 1..Len(mout) :
          /\ mout[i].kind # "panic"
          /\ mout[i].kind = "err" =>
                /\ mout[i].err \in {IOError, FormatError}
                /\ mout[i].at <= Len(mstream)
                /\ mstream[mout[i].at].kind \in {"frame", "io", "insufficient"}

C34_Witness ==
    /\ mpc = "iter"
    /\ Len(mstream) = 3
    /\ mstream[2].kind = "skip"
    /\ mstream[3].kind = "io"
    /\ Len(mout) >= 2
    /\ mout[Len(mout) - 1] = ErrItem(3, IOError)
    /\ mout[Len(mout)] = EndItem(4)

Mp3Consistent ==
    \A u \in 1..Len(mstream) :
        \/ mstream[u].kind = "skip"
        \/ /\ mstream[u].kind = "frame"
           /\ mstream[u].rate = mstream[FirstFrameIdx].rate
           /\ mstream[u].channels = mstream[FirstFrameIdx].channels

\* The samples of the frames from the i-th result on, in stream order.
RECURSIVE Mp3Expected(_)
Mp3Expected(i) ==
    IF i > Len(mstream) THEN <<>>
    ELSE (IF mstream[i].kind = "frame"
          THEN [k \in 1..Len(mstream[i].data) |->
                    SampleItem(i, k - 1, mstream[i].data[k])]
          ELSE <<>>) \o Mp3Expected(i + 1)

\* C26: on a stream whose frames all report the first frame's parameters the
\* sample sequence is the samples of the first frame and then of each later
\* frame in stream order, each divided by 32767, with nothing for empty
\* frames and skipped data, and then end-of-stream, with no error item.
C26_Mp3SequenceIsFramesInOrder ==
    (mpc = "iter" /\ Mp3Consistent) =>
        LET e == Mp3Expected(FirstFrameIdx) IN
        \A j \in 1..Len(mout) :
            /\ j <= Len(e) =>
                  /\ mout[j] = e[j]
                  /\ mvals[j] = [num |-> e[j].val, den |-> 32767]
            /\ j = Len(e) + 1 => mout[j] = EndItem(Len(mstream) + 1)

C26_Witness ==
    /\ mpc = "iter"
    /\ Mp3Consistent
    /\ Len(mstream) = 3
    /\ mstream[1].kind = "frame"
    /\ Len(mstream[1].data) = 1
    /\ mstream[2].kind = "skip"
    /\ Len(mstream[3].data) = 2
    /\ Len(mout) = 4
    /\ mout[4].kind = "end"

(***************************************************************************)
(* Claims about the FLAC adapter.                                          *)
(***************************************************************************)
\* C12: a FLAC sample sequence never crashes: the recorded block length
\* cur_block_len never exceeds the length of the buffer cur_block that next
\* indexes, no pull panics, and a pull after the sequence has ended returns
\* end-of-stream again.
C12_FlacPullAfterEndIsSafe ==
    fpc \in {"iter", "panicked"} =>
        /\ cur_block_len <= Len(cur_block)
        /\ fpc # "panicked"
        /\ \A i \in 1..Len(fout) :
              fout[i].kind = "end" =>
                  \A j \in (i + 1)..Len(fout) : fout[j].kind = "end"

\* C25: a FLAC sample sequence yields no error item; the pull that meets a
\* block-read error returns end-of-stream; and every item is preceded, in
\* stream order, by all samples of the blocks read before it.
C25_FlacEndsWithoutErrorItem ==
    fpc \in {"iter", "panicked"} =>
        /\ \A j \in 1..Len(fout) : fout[j].kind # "err"
        /\ \A u \in 1..(fnext - 1) :
              fstream[u].kind = "err" => \E j \in 1..Len(fout) : fout[j] = EndItem(u)
        /\ \A i \in 1..Len(fout) : \A j \in (i + 1)..Len(fout) :
              (fout[i].kind = "sample" /\ fout[j].kind = "sample") =>
                  (fout[i].at < fout[j].at
                      \/ (fout[i].at = fout[j].at /\ fout[i].n < fout[j].n))
        /\ \A j \in 1..Len(fout) : \A u \in 1..Len(fstream) :
              (u < fout[j].at /\ fstream[u].kind = "block") =>
                  \A k \in 1..Len(fstream[u].data) :
                      \E i \in 1..(j - 1) :
                          fout[i] = SampleItem(u, k - 1, fstream[u].data[k])

C25_Witness ==
    /\ fpc = "iter"
    /\ Len(fout) = 3
    /\ fout[1].kind = "sample"
    /\ fout[2].kind = "sample"
    /\ fout[3] = EndItem(2)
    /\ fstream[2].kind = "err"

\* C29: the FLAC divisor is (2^(b-1) - 1) as f32 for the declared bits per
\* sample b, it is positive, and a block sample equal to 2^(b-1) - 1
\* normalizes to 1.0: the two operands of the division are equal.
C29_FlacDivisorFromBits ==
    fpc \in {"iter", "panicked"} =>
        /\ max_sample_value = ToF32(LargestSample(fbits))
        /\ LargestSample(fbits) > 0
        /\ max_sample_value.m > 0
        /\ \A i \in 1..Len(fout) :
              (fout[i].kind = "sample" /\ fout[i].val = LargestSample(fbits)) =>
                  fvals[i].num = fvals[i].den

C29_Witness ==
    /\ fpc = "iter"
    /\ fbits = 32
    /\ Len(fout) >= 1
    /\ fout[1].kind = "sample"
    /\ fout[1].val = I32Max
    /\ fvals[1].num = fvals[1].den

(***************************************************************************)
(* Claims about the Vorbis adapter.                                        *)
(***************************************************************************)
\* The place (packet, index) of sample item a comes before that of item b.
PlaceBefore(a, b) == a.at < b.at \/ (a.at = b.at /\ a.n < b.n)

\* C14: in a Vorbis sample sequence the samples come out once each and in
\* stream order, and every item (sample, error or end) is preceded by all
\* samples of the packets decoded before the result it stems from.
C14_VorbisEverySampleOnceInOrder ==
    vpc = "iter" =>
        /\ \A i \in 1..Len(vout) : \A j \in (i + 1)..Len(vout) :
              (vout[i].kind = "sample" /\ vout[j].kind = "sample") =>
                  PlaceBefore(vout[i], vout[j])
        /\ \A j \in 1..Len(vout) : \A u \in 1..Len(vstream) :
              (u < vout[j].at /\ vstream[u].kind = "packet") =>
                  \A k \in 1..Len(vstream[u].data) :
                      \E i \in 1..(j - 1) :
                          vout[i] = SampleItem(u, k - 1, vstream[u].data[k])

(***************************************************************************)
(* Claims about the raw sample codec.                                      *)
(***************************************************************************)
SignedFormats == {"Signed8", "Signed16", "Signed24"}
UnsignedFormats == {"Unsigned8", "Unsigned16", "Unsigned24"}
BitsOf(fmt) == 8 * SizeBytes(fmt)

\* The w-byte run of the source that starts at offset at.
RunAt(at, w) == SubSeq(cbytes, at + 1, at + w)

\* The bytes of an integer of w bytes written in the given byte order, most
\* significant byte hi and all other bytes lo.
Written(w, endian, hi, lo) ==
    [i \in 1..w |-> IF (endian = "Big" /\ i = 1) \/ (endian = "Little" /\ i = w)
                    THEN hi ELSE lo]
MaxBytes(fmt, endian) ==
    Written(SizeBytes(fmt), endian, IF fmt \in SignedFormats THEN 127 ELSE 255, 255)
MinBytes(fmt, endian) == Written(SizeBytes(fmt), endian, 128, 0)
ZeroBytes(fmt) == Zeros(SizeBytes(fmt))

\* The integer a run of bytes stands for in the given byte order.
RECURSIVE Weighted(_, _, _)
Weighted(b, endian, i) ==
    IF i > Len(b) THEN 0
    ELSE b[i] * (256 ^ (IF endian = "Big" THEN Len(b) - i ELSE i - 1))
         + Weighted(b, endian, i + 1)
IntegerOf(fmt, endian, b) ==
    LET u == Weighted(b, endian, 1) IN
    IF fmt \in SignedFormats /\ u >= 2 ^ (BitsOf(fmt) - 1)
    THEN u - 2 ^ BitsOf(fmt) ELSE u

\* The normalization of v: v/MAX for signed, v/MAX*2-1 for unsigned formats.
Normalization(fmt, v) ==
    IF fmt \in SignedFormats
    THEN [num |-> v, den |-> 2 ^ (BitsOf(fmt) - 1) - 1]
    ELSE [num |-> 2 * v - (2 ^ BitsOf(fmt) - 1), den |-> 2 ^ BitsOf(fmt) - 1]

IsOne(v) == v.den > 0 /\ v.num = v.den
IsMinusOne(v) == v.den > 0 /\ v.num = 0 - v.den

\* The pull that returned cout[i] had a whole sample's bytes ahead of it.
WholeSampleAhead(i) ==
    cout[i].at + SizeBytes(cspec.sample_format) <= Len(cbytes)

\* C18: decoding the bytes of the format's maximum positive value yields
\* 1.0, and for unsigned formats decoding zero yields -1.0.
C18_MaxDecodesToOne ==
    \A i \in 1..Len(cout) :
        LET fmt == cspec.sample_format
            run == RunAt(cout[i].at, SizeBytes(fmt))
        IN  WholeSampleAhead(i) =>
                /\ run = MaxBytes(fmt, cspec.endianness) =>
                      (cout[i].kind = "sample" /\ IsOne(cvals[i]))
                /\ (fmt \in UnsignedFormats /\ run = ZeroBytes(fmt)) =>
                      (cout[i].kind = "sample" /\ IsMinusOne(cvals[i]))

\* C19: for the signed formats decoded by the signed arm of sample_iterator!,
\* decoding the bytes of the minimum value yields -1.0 and every decoded
\* sample lies in [-1.0, 1.0].
C19_SignedMinDecodesToMinusOne ==
    cspec.sample_format \in {"Signed8", "Signed16"} =>
        \A i \in 1..Len(cout) :
            LET fmt == cspec.sample_format
                run == RunAt(cout[i].at, SizeBytes(fmt))
            IN  /\ (WholeSampleAhead(i) /\ run = MinBytes(fmt, cspec.endianness)) =>
                      (cout[i].kind = "sample" /\ IsMinusOne(cvals[i]))
                /\ cout[i].kind = "sample" =>
                      (0 - cvals[i].den <= cvals[i].num /\ cvals[i].num <= cvals[i].den)

\* C20: a source holding n values of the format, written in the spec's byte
\* order, decodes to the n normalized values in the same order: the i-th
\* pull returns the normalization of the i-th value.
C20_RawRoundTrip ==
    \A i \in 1..Len(cout) :
        LET fmt == cspec.sample_format
            w == SizeBytes(fmt)
        IN  i * w <= Len(cbytes) =>
                /\ cout[i] = SampleItem((i - 1) * w, w, 0)
                /\ cvals[i] = Normalization(fmt,
                                  IntegerOf(fmt, cspec.endianness, RunAt((i - 1) * w, w)))

\* The three statements above on the 8- and 16-bit formats alone.
NarrowFormatsDecodeAsClaimed ==
    cspec.sample_format \notin Formats24 => (C18_MaxDecodesToOne /\ C20_RawRoundTrip)

\* C28: for Unsigned24 and Signed24 a pull with 3 bytes ahead decodes them as
\* a 24-bit integer in the spec's byte order and yields its normalization
\* (value/(2^24-1)*2-1, or the two's-complement value/(2^23-1)).
C28_24BitDecodesInByteOrder ==
    cspec.sample_format \in Formats24 =>
        \A i \in 1..Len(cout) :
            WholeSampleAhead(i) =>
                /\ cout[i].kind = "sample"
                /\ cvals[i] = Normalization(cspec.sample_format,
                                  IntegerOf(cspec.sample_format, cspec.endianness,
                                            RunAt(cout[i].at, 3)))

(***************************************************************************)
(* Claims about the WAV adapter.                                           *)
(***************************************************************************)
\* The divisors the claim names.
C23Divisor(bits) ==
    CASE bits = 8 -> 127
      [] bits = 16 -> 32767
      [] bits = 24 -> 8388607
      [] bits = 32 -> 2147483647

\* C23: every sample of a WAV sequence is the sample hound returned divided
\* by 127, 32767, 8388607 or 2147483647 for a declared integer depth of 8,
\* 16, 24 or 32 bits, and is the sample itself for 32-bit float.
C23_WavDivisorByDepth ==
    \A i \in 1..Len(wout) :
        wout[i].kind = "sample" =>
            IF whdr.sample_format = "Float"
            THEN /\ whdr.bits_per_sample = 32
                 /\ wvals[i].num = ToF32(wout[i].val)
                 /\ wvals[i].den = ToF32(1)
            ELSE wvals[i] = [num |-> ToF32(wout[i].val),
                             den |-> ToF32(C23Divisor(whdr.bits_per_sample))]

C23_Witness ==
    /\ wpc = "iter"
    /\ whdr.bits_per_sample = 24
    /\ Len(wout) = 2
    /\ wout[1].kind = "sample"
    /\ wout[1].val = 8388607
    /\ wvals[1].num = wvals[1].den
    /\ wout[2].kind = "sample"
    /\ wout[2].val = 0 - 8388607

\* The (bits per sample, sample format) pairs the claim lists.
C24Listed(spec) ==
    \/ spec.sample_format = "Int" /\ spec.bits_per_sample \in {8, 16, 24, 32}
    \/ spec.sample_format = "Float" /\ spec.bits_per_sample = 32

\* C24: into_samples on a WAV decoder whose declared (bits, format) is not
\* listed fails with FormatError and no sample sequence exists: nothing is
\* ever pulled.
C24_UnsupportedWavIsFormatError ==
    /\ wpc = "iter" => C24Listed(wspec)
    /\ (wspec # NoWavSpec /\ ~C24Listed(wspec) /\ wpc # "open") =>
          (wpc = "failed" /\ werr = FormatError /\ wout = <<>>)

C24_Witness ==
    /\ wpc = "failed"
    /\ whead = "ok"
    /\ wspec.bits_per_sample = 12
    /\ wspec.sample_format = "Int"
    /\ werr = FormatError
    /\ Len(wstream) = 1

(***************************************************************************)
(* Claims about Decoder::info.                                             *)
(***************************************************************************)
\* The AudioInfo the spec or the stream given to open declares.
InfoAtOpen ==
    CASE variant = "Raw" ->
            [format |-> "Raw", sample_rate |-> rspec.sample_rate,
             channels |-> rspec.channels]
      [] variant = "Wav" ->
            [format |-> "Wav", sample_rate |-> whdr.sample_rate,
             channels |-> whdr.channels]
      [] variant = "Vorbis" ->
            [format |-> "Vorbis", sample_rate |-> vident.sample_rate,
             channels |-> vident.channels]
      [] variant = "Mp3" ->
            [format |-> "Mp3", sample_rate |-> mstream[FirstFrameIdx].rate,
             channels |-> mstream[FirstFrameIdx].channels]
      [] variant = "Flac" ->
            [format |-> "Flac", sample_rate |-> fsinfo.sample_rate,
             channels |-> fsinfo.channels]

\* C22: every call of info() returns the AudioInfo captured at open (for a
\* raw decoder format Raw with the spec's sample_rate and channels) and
\* changes nothing of the decoder or the source.
C22_InfoIsPure ==
    [][infos' # infos =>
          /\ infos' = Append(infos, InfoAtOpen)
          /\ UNCHANGED <<dvars, rvars, mvars, fvars, vvars, cvars, wvars, variant>>]_vars

C22_Witness ==
    /\ variant = "Raw"
    /\ rpc = "iter"
    /\ rpos = 1
    /\ infos = <<AudioInfo("Raw", 48000, 2), AudioInfo("Raw", 48000, 2)>>

(***************************************************************************)
(* Claims about pulling to the end of a sample sequence.                   *)
(***************************************************************************)
\* The stream of the decoder pulled from holds frames, packets or blocks
\* (empty ones and skipped data included) and nothing the iterator reports
\* as an error.
ErrorFree ==
    CASE variant = "Mp3" ->
            /\ \A u \in 1..Len(mstream) : mstream[u].kind \in {"frame", "skip"}
            /\ \A u, v \in 1..Len(mstream) :
                  (mstream[u].kind = "frame" /\ mstream[v].kind = "frame") =>
                      /\ mstream[u].rate = mstream[v].rate
                      /\ mstream[u].channels = mstream[v].channels
      [] variant = "Vorbis" ->
            \A u \in 1..Len(vstream) : vstream[u].kind = "packet"
      [] variant = "Flac" ->
            \A u \in 1..Len(fstream) : fstream[u].kind = "block"
Iterating ==
    CASE variant = "Mp3" -> mpc = "iter"
      [] variant = "Vorbis" -> vpc = "iter"
      [] variant = "Flac" -> fpc = "iter"
PulledItems ==
    CASE variant = "Mp3" -> mout
      [] variant = "Vorbis" -> vout
      [] variant = "Flac" -> fout
Ended == \E i \in 1..Len(PulledItems) : PulledItems[i].kind = "end"

\* Repeated pulling from an error-free finite stream eventually returns
\* end-of-stream.
EverySequenceEnds == [](((Iterating /\ ErrorFree) => <>Ended))

\* C27: on a finite error-free stream every pull returns (none panics) and
\* repeated pulling eventually returns end-of-stream.
C27_EveryPullReturnsAndSequenceEnds ==
    /\ [](ErrorFree => fpc # "panicked")
    /\ EverySequenceEnds

====
